---------------------------- MODULE Spec2Model ----------------------------
(***************************************************************************)
(* A model of django-coralogix-otel: the container entrypoint              *)
(* (entrypoint.py), the provider configurator (config.py, otel_config.py), *)
(* the request middleware (middleware.py) and the resource-attribute       *)
(* builder (utils.py, config.py).                                          *)
(*                                                                         *)
(* Each component has its own specification over the shared variables:     *)
(*   SpecEntry  the entrypoint's main()                                    *)
(*   SpecProv   setup_tracing / setup_metrics / setup_instrumentation      *)
(*   SpecMw     OpenTelemetryMiddleware                                    *)
(*   SpecRes    get_resource_attributes / get_resource and the parser      *)
(*   SpecAttr   the middleware's readers of a request                      *)
(*   SpecSafe   utils.safe_configure_opentelemetry                         *)
(*   SpecBool   the readers of boolean environment variables               *)
(*   SpecLog    the handlers of the root logger                            *)
(*   SpecFmt    logging_config.JSONFormatterWithTrace.format               *)
(*   SpecRace   setup_tracing called by several threads                    *)
(*   SpecApp    DjangoCoralogixOtelConfig.ready() in a Django process      *)
(* Strings the code only compares are TLA+ strings; strings the code       *)
(* splits and strips are sequences of one-character strings.               *)
(***************************************************************************)
EXTENDS Integers, Sequences, FiniteSets, TLC

\* the entrypoint process
VARIABLES
  argv,        \* sys.argv[1:]
  env,         \* os.environ, restricted to EnvNames
  launcher,    \* TRUE iff opentelemetry-instrument is on the PATH
  epc,         \* where main() stands: main, probe, setup, server, passthru, exited
  caller,      \* who called setup_django: "main" or "run_gunicorn"
  commands,    \* the local list `commands` of setup_django
  ci,          \* index of the next element of `commands`
  launched,    \* every subprocess started so far: [cmd, rc]
  exitStatus   \* the process's exit status, -1 while it runs

\* the resource builders
VARIABLES
  renv,        \* os.environ as the builders read it
  rres         \* the call made and its outcome: [fn, raised, value]

\* the provider configurator
VARIABLES
  penv,        \* os.environ as the configurator reads it
  providers,   \* the provider objects this code has constructed, in order:
               \* [signal, exporters]
  current,     \* per signal, the process-wide provider: 0 the SDK's proxy,
               \* -1 one installed by auto-instrumentation, k > 0 providers[k]
  rootMarked,  \* logging.getLogger()._otel_instrumented is set
  instrumented, \* the integrations whose is_instrumented_by_opentelemetry
               \* flag is set
  pcalls,      \* the number of calls made so far
  plast        \* the last call: [fn, netFailed, made, module, kwargs,
               \* attempted, reinvoked, failed]

\* the request middleware
VARIABLES
  tracer,      \* self.tracer is set (not None)
  recording,   \* the spans the tracer starts are recording
  handlerCalls,\* per request, how often get_response was called
  currentSpan, \* self.current_span: the request whose span it is, 0 while unset
  spans,       \* per request, the span process_request started for it:
               \* [started, keys, statusCode, status, exception, ended],
               \* keys being the keys set_attribute was called with
  mpc,         \* per request, where its cycle stands
  callsDone,   \* per request, the telemetry calls the hook in progress made
  held,        \* per request, the span its thread read from
               \* self.current_span for the call it is about to make (0: none)
  reqSpan,     \* per request, request.opentelemetry_span (0: no attribute)
  handlerResp, \* per request, the status code of get_response's response
  returned,    \* per request, the status code of the response returned
  propagated,  \* per request, an exception left the middleware
  telFailed    \* per request, a telemetry call raised

\* the middleware's readers of one request
VARIABLES
  qreq,        \* the request read: [meta, method, hasUser, user, hasSession,
               \* sessionTruthy, hasResolver, resolver, environ]
  qres         \* the call made and its outcome: [fn, raised, ...]

\* the readers of a boolean-like environment variable
VARIABLES
  bval,        \* the variable's value: characters, or NoneS when unset
  bres         \* the reader called and its verdict: [fn, on]

\* the root logger
VARIABLES
  handlers,    \* logging.getLogger().handlers, in order: [owner, stream,
               \* formatter]
  lcalls       \* the number of logging set-up calls made so far

\* the log formatter
VARIABLES
  frec,        \* the record formatted and the span current at that time
  fout         \* the outcome: [fn, raised, kind, keys, trace_id, span_id]

\* the threads that call setup_tracing at the same time
VARIABLES
  tpc,         \* per thread, where it stands: start, checked, set, done
  tseen,       \* per thread, what its probe of the global provider read
  tprov        \* per thread, the provider it constructed (0: none)

\* the Django process that loads the application
VARIABLES
  origin,      \* how the process was started: shell (not yet), entrypoint,
               \* direct, otel_run
  pargv,       \* sys.argv of the process
  rcalls,      \* the calls made in the process so far
  rlast        \* the outcome of the last call

entryVars ==
  <<argv, env, launcher, epc, caller, commands, ci, launched, exitStatus>>

resVars == <<renv, rres>>

provVars == <<penv, providers, current, rootMarked, instrumented, pcalls, plast>>

mwVars ==
  <<tracer, recording, handlerCalls, currentSpan, spans, mpc, callsDone, held, reqSpan,
    handlerResp, returned, propagated, telFailed>>

attrVars == <<qreq, qres>>

boolVars == <<bval, bres>>

logVars == <<handlers, lcalls>>

fmtVars == <<frec, fout>>

raceVars == <<tpc, tseen, tprov>>

appVars == <<origin, pargv, rcalls, rlast>>

vars ==
  <<entryVars, resVars, provVars, mwVars, attrVars, boolVars, logVars, fmtVars, raceVars, appVars>>

\* what an action of one component leaves alone
EntryFrame == UNCHANGED
  <<resVars, provVars, mwVars, attrVars, boolVars, logVars, fmtVars, raceVars, appVars>>

ResFrame == UNCHANGED
  <<entryVars, provVars, mwVars, attrVars, boolVars, logVars, fmtVars, raceVars, appVars>>

ProvFrame == UNCHANGED
  <<entryVars, resVars, mwVars, attrVars, boolVars, logVars, fmtVars, raceVars, appVars>>

MwFrame == UNCHANGED
  <<entryVars, resVars, provVars, attrVars, boolVars, logVars, fmtVars, raceVars, appVars>>

AttrFrame == UNCHANGED
  <<entryVars, resVars, provVars, mwVars, boolVars, logVars, fmtVars, raceVars, appVars>>

BoolFrame == UNCHANGED
  <<entryVars, resVars, provVars, mwVars, attrVars, logVars, fmtVars, raceVars, appVars>>

LogFrame == UNCHANGED
  <<entryVars, resVars, provVars, mwVars, attrVars, boolVars, fmtVars, raceVars, appVars>>

FmtFrame == UNCHANGED
  <<entryVars, resVars, provVars, mwVars, attrVars, boolVars, logVars, raceVars, appVars>>

\* the threads write the provider variables themselves
RaceFrame == UNCHANGED
  <<entryVars, resVars, mwVars, attrVars, boolVars, logVars, fmtVars, appVars>>

\* the process writes the provider and logging variables itself
AppFrame == UNCHANGED
  <<entryVars, resVars, mwVars, attrVars, boolVars, fmtVars, raceVars>>

\* os.getenv(name) of a variable that is not set
None == "<None>"

\* Python truthiness of an os.getenv result: unset and "" are both false
Truthy(v) == v # None /\ v # ""

\* os.getenv(name, default)
Getenv(e, name, default) == IF e[name] = None THEN default ELSE e[name]

(***************************************************************************)
(* Entrypoint: environment defaults                                        *)
(***************************************************************************)

\* the env_vars dictionary of setup_opentelemetry_env
EnvDefaults ==
  [ OTEL_PYTHON_INSTRUMENTATION_ENABLED |-> "true",
    OTEL_PYTHON_DJANGO_INSTRUMENT |-> "true",
    OTEL_PYTHON_REQUESTS_INSTRUMENT |-> "true",
    OTEL_PYTHON_PSYCOPG2_INSTRUMENT |-> "true",
    OTEL_PYTHON_LOGGING_AUTO_INSTRUMENTATION_ENABLED |-> "true",
    OTEL_TRACES_EXPORTER |-> "otlp",
    OTEL_METRICS_EXPORTER |-> "otlp",
    OTEL_LOGS_EXPORTER |-> "otlp",
    OTEL_PROPAGATORS |-> "tracecontext,baggage",
    OTEL_TRACES_SAMPLER |-> "always_on",
    OTEL_BSP_SCHEDULE_DELAY |-> "5000",
    OTEL_BSP_MAX_QUEUE_SIZE |-> "2048",
    OTEL_BSP_MAX_EXPORT_BATCH_SIZE |-> "512",
    OTEL_BSP_EXPORT_TIMEOUT |-> "30000",
    OTEL_METRIC_EXPORT_INTERVAL |-> "30000" ]

\* every environment variable the entrypoint reads or writes
EnvNames ==
  DOMAIN EnvDefaults \cup
    {"OTEL_SERVICE_NAME", "OTEL_IP", "OTEL_EXPORTER_OTLP_ENDPOINT",
     "APP_ENVIRONMENT", "SKIP_DJANGO_SETUP"}

\* lines 22-25: the service name
EnvServiceName(e) ==
  IF ~Truthy(e["OTEL_SERVICE_NAME"])
    THEN [e EXCEPT !["OTEL_SERVICE_NAME"] =
                     Getenv(e, "OTEL_SERVICE_NAME", "django-service")]
    ELSE e

\* lines 28-32: the endpoint derived from OTEL_IP
EnvEndpoint(e) ==
  IF Truthy(e["OTEL_IP"]) /\ ~Truthy(e["OTEL_EXPORTER_OTLP_ENDPOINT"])
    THEN [e EXCEPT !["OTEL_EXPORTER_OTLP_ENDPOINT"] =
                     "http://" \o e["OTEL_IP"] \o ":4317"]
    ELSE e

\* lines 54-57: a default is applied where the variable is unset or empty
EnvApplyDefaults_Overwrite(e) ==
  [k \in DOMAIN e |-> IF k \in DOMAIN EnvDefaults THEN EnvDefaults[k] ELSE e[k]]

EnvApplyDefaults(e) ==
  [k \in DOMAIN e |->
     IF k \in DOMAIN EnvDefaults /\ ~Truthy(e[k]) THEN EnvDefaults[k] ELSE e[k]]

\* lines 60-64: local development without an endpoint uses console exporters
EnvLocalConsole(e) ==
  IF e["APP_ENVIRONMENT"] = "local" /\ ~Truthy(e["OTEL_EXPORTER_OTLP_ENDPOINT"])
    THEN [e EXCEPT !["OTEL_TRACES_EXPORTER"] = "console",
                   !["OTEL_METRICS_EXPORTER"] = "console",
                   !["OTEL_LOGS_EXPORTER"] = "console"]
    ELSE e

setup_opentelemetry_env(e) ==
  EnvLocalConsole(EnvApplyDefaults(EnvEndpoint(EnvServiceName(e))))

(***************************************************************************)
(* Entrypoint: main(), setup_django(), run_gunicorn(), run_django_command() *)
(***************************************************************************)

\* sys.exit(n) of an int: the low eight bits reach the parent
SysExit(n) == n % 256

\* the exit codes a subprocess ends with; a negative returncode is the
\* subprocess module's report of death by signal
RetCodes == {0, 1, 3, -15}

\* run_django_command's return value for a subprocess that ended with rc:
\* result.returncode (0) or e.returncode of CalledProcessError
run_django_command_result_Flattened(rc) == IF rc = 0 THEN 0 ELSE 1

run_django_command_result(rc) == rc

\* the command a verb passes through to run_django_command (lines 198, 204)
PassthruCmd(av) ==
  IF av[1] = "manage.py" THEN <<"python">> \o av ELSE av

\* main's verb dispatch, lines 165-208: the branch taken for sys.argv[1:]
MainDispatch_NoArgCheck(av) ==
  IF Len(av) < 1 THEN "usage"
  ELSE IF av[1] = "gunicorn" THEN "gunicorn"
  ELSE IF av[1] = "server" THEN "server"
  ELSE IF av[1] = "setup" THEN "setup"
  ELSE IF av[1] \in {"manage.py", "python"} THEN "passthru"
  ELSE "unknown"

MainDispatch(av) ==
  IF Len(av) < 1 THEN "usage"
  ELSE IF av[1] = "gunicorn" THEN "gunicorn"
  ELSE IF av[1] = "server" THEN "server"
  ELSE IF av[1] = "setup" THEN "setup"
  ELSE IF av[1] \in {"manage.py", "python"}
         THEN (IF Len(av) < 2 THEN "noargs" ELSE "passthru")
  ELSE "unknown"

\* line 190: the verb `server` forces the skip flag
ForceSkip_Forgotten(e) == e

ForceSkip(e) == [e EXCEPT !["SKIP_DJANGO_SETUP"] = "true"]

\* line 95: setup_django's skip test
SetupSkipped(e) == e["SKIP_DJANGO_SETUP"] = "true"

\* lines 101-104: the fixed part of `commands`
BaseCommands == << <<"python", "manage.py", "migrate", "--no-input">>,
                   <<"python", "manage.py", "collectstatic", "--no-input">> >>

KafkaProbe == <<"python", "manage.py", "help", "kafka_setup">>
KafkaSetup == <<"python", "manage.py", "kafka_setup">>
GunicornCmd == <<"gunicorn", "conf.asgi:application", "-c", "gunicorn.config.py">>

Exit(n) ==
  /\ epc' = "exited"
  /\ exitStatus' = SysExit(n)

\* setup_django returned r to its caller: main returns it, run_gunicorn
\* goes on to the server when it is 0 and returns it otherwise
SetupReturns(r, who) ==
  IF who = "run_gunicorn" /\ r = 0
    THEN epc' = "server" /\ exitStatus' = exitStatus
    ELSE Exit(r)

\* the entry of setup_django, lines 95-104
EnterSetup(e, who) ==
  /\ caller' = who
  /\ IF SetupSkipped(e)
       THEN SetupReturns(0, who)
       ELSE epc' = "probe" /\ exitStatus' = exitStatus

\* main() up to its first subprocess or its return
Main ==
  /\ epc = "main"
  /\ LET e == setup_opentelemetry_env(env)
         branch == MainDispatch(argv)
     IN CASE branch = "gunicorn" -> env' = e /\ EnterSetup(e, "run_gunicorn")
          [] branch = "server" ->
               /\ env' = ForceSkip(e)
               /\ EnterSetup(ForceSkip(e), "run_gunicorn")
          [] branch = "setup" -> env' = e /\ EnterSetup(e, "main")
          [] branch = "passthru" ->
               /\ env' = e
               /\ epc' = "passthru"
               /\ UNCHANGED <<caller, exitStatus>>
          [] OTHER -> env' = e /\ Exit(1) /\ UNCHANGED caller
  /\ UNCHANGED <<argv, launcher, commands, ci, launched>>
  /\ EntryFrame

\* the ways the probe's subprocess.run(..., capture_output=True, text=True)
\* of lines 108-113 ends: it returns the finished child's result; it raises
\* before a child exists (python not found, "unstarted"); or the child runs
\* and exits but its output is not valid text, and the decoding raises
\* UnicodeDecodeError ("undecodable")
ProbeOutcomes == {"returned", "unstarted", "undecodable"}

\* setup_django lines 107-117: the probe for the kafka_setup command, run
\* without the launcher. kafka_setup is appended (line 115) only when
\* subprocess.run returned a result whose returncode is 0; the except
\* clause of line 116 swallows whatever it raised, after the child ran or
\* before.
SetupProbe ==
  /\ epc = "probe"
  /\ \E rc \in {0, 1}, outcome \in ProbeOutcomes :
       /\ launched' = IF outcome = "unstarted" THEN launched
                       ELSE Append(launched, [cmd |-> KafkaProbe, rc |-> rc])
       /\ commands' = IF outcome = "returned" /\ rc = 0
                        THEN Append(BaseCommands, KafkaSetup)
                        ELSE BaseCommands
  /\ ci' = 1
  /\ epc' = "setup"
  /\ UNCHANGED <<argv, env, launcher, caller, exitStatus>>
  /\ EntryFrame

\* one iteration of the loop of setup_django, lines 119-125, and, after the
\* last one, the return of line 128. run_django_command catches
\* CalledProcessError itself and returns the code, so the except clause of
\* line 123 never runs and the returned code is dropped.
SetupStep ==
  /\ epc = "setup"
  /\ ci <= Len(commands)
  /\ IF ~launcher
       THEN Exit(1) /\ UNCHANGED <<launched, ci>>
       ELSE \E rc \in RetCodes :
              /\ launched' = Append(launched, [cmd |-> commands[ci], rc |-> rc])
              /\ ci' = ci + 1
              /\ IF ci = Len(commands)
                   THEN SetupReturns(0, caller)
                   ELSE UNCHANGED <<epc, exitStatus>>
  /\ UNCHANGED <<argv, env, launcher, caller, commands>>
  /\ EntryFrame

\* run_gunicorn lines 147-148
RunServer ==
  /\ epc = "server"
  /\ IF ~launcher
       THEN Exit(1) /\ UNCHANGED launched
       ELSE \E rc \in RetCodes :
              /\ launched' = Append(launched, [cmd |-> GunicornCmd, rc |-> rc])
              /\ Exit(run_django_command_result(rc))
  /\ UNCHANGED <<argv, env, launcher, caller, commands, ci>>
  /\ EntryFrame

\* main lines 198-199 and 204-205
RunPassthru ==
  /\ epc = "passthru"
  /\ IF ~launcher
       THEN Exit(1) /\ UNCHANGED launched
       ELSE \E rc \in RetCodes :
              /\ launched' = Append(launched, [cmd |-> PassthruCmd(argv), rc |-> rc])
              /\ Exit(run_django_command_result(rc))
  /\ UNCHANGED <<argv, env, launcher, caller, commands, ci>>
  /\ EntryFrame

\* the command lines the model starts the entrypoint with
Argvs ==
  { <<>>, <<"gunicorn">>, <<"server">>, <<"setup">>, <<"manage.py">>,
    <<"manage.py", "migrate">>, <<"python">>, <<"python", "manage.py", "shell">>,
    <<"runserver">> }

\* the environments the model starts the entrypoint in
EmptyEnv == [k \in EnvNames |-> None]

EntryEnvs ==
  { [EmptyEnv EXCEPT !["SKIP_DJANGO_SETUP"] = skip,
                     !["OTEL_IP"] = ip,
                     !["OTEL_EXPORTER_OTLP_ENDPOINT"] = ep,
                     !["APP_ENVIRONMENT"] = app,
                     !["OTEL_TRACES_EXPORTER"] = exp] :
      skip \in {None, "true", "TRUE"},
      ip \in {None, "10.0.0.5"},
      ep \in {None, "http://collector:4317"},
      app \in {None, "local"},
      exp \in {None, "console", "zipkin"} }

\* the entrypoint is not running
IdleEntry ==
  /\ argv = <<>>
  /\ env = [k \in EnvNames |-> None]
  /\ launcher = TRUE
  /\ epc = "exited"
  /\ caller = "main"
  /\ commands = <<>>
  /\ ci = 1
  /\ launched = <<>>
  /\ exitStatus = 1

\* no resource builder is called
IdleRes ==
  /\ renv = [k \in {} |-> <<>>]
  /\ rres = [fn |-> "none"]

\* the configurator is not called
IdleProv ==
  /\ penv = [k \in {} |-> None]
  /\ providers = <<>>
  /\ current = [sig \in {} |-> 0]
  /\ rootMarked = FALSE
  /\ instrumented = {}
  /\ pcalls = 0
  /\ plast = [fn |-> "none"]

\* no middleware is installed
IdleMw ==
  /\ tracer = FALSE
  /\ recording = FALSE
  /\ handlerCalls = <<>>
  /\ currentSpan = 0
  /\ spans = <<>>
  /\ mpc = <<>>
  /\ callsDone = <<>>
  /\ held = <<>>
  /\ reqSpan = <<>>
  /\ handlerResp = <<>>
  /\ returned = <<>>
  /\ propagated = <<>>
  /\ telFailed = <<>>

\* no request is being read
IdleAttr ==
  /\ qreq = <<>>
  /\ qres = [fn |-> "none"]

\* no boolean-like variable is being read
IdleBool ==
  /\ bval = <<>>
  /\ bres = [fn |-> "none", on |-> FALSE]

\* no logging set-up is running
IdleLog ==
  /\ handlers = <<>>
  /\ lcalls = 0

\* no record is being formatted
IdleFmt ==
  /\ frec = <<>>
  /\ fout = [fn |-> "none"]

\* no thread is configuring
IdleRace ==
  /\ tpc = <<>>
  /\ tseen = <<>>
  /\ tprov = <<>>

\* no Django process is modelled
IdleApp ==
  /\ origin = "none"
  /\ pargv = <<>>
  /\ rcalls = 0
  /\ rlast = [fn |-> "none"]

InitEntry ==
  /\ IdleApp
  /\ IdleRace
  /\ IdleFmt
  /\ IdleLog
  /\ IdleRes
  /\ IdleProv
  /\ IdleMw
  /\ IdleAttr
  /\ IdleBool
  /\ argv \in Argvs
  /\ env \in EntryEnvs
  /\ launcher \in BOOLEAN
  /\ epc = "main"
  /\ caller = "main"
  /\ commands = <<>>
  /\ ci = 1
  /\ launched = <<>>
  /\ exitStatus = -1

NextEntry == Main \/ SetupProbe \/ SetupStep \/ RunServer \/ RunPassthru

(***************************************************************************)
(* Resource attributes: utils.get_resource_attributes,                     *)
(* utils._parse_k8s_resource_attributes and config.get_resource.           *)
(* Strings are sequences of one-character strings here.                    *)
(***************************************************************************)

\* os.getenv(name) of a variable that is not set, among character sequences
NoneS == <<"<None>">>

TruthyS(v) == v # NoneS /\ v # <<>>

GetenvS(e, name, default) == IF e[name] = NoneS THEN default ELSE e[name]

\* the string literals of the two builders
K_service_name == <<"s", "e", "r", "v", "i", "c", "e", ".", "n", "a", "m", "e">>
K_service_namespace == <<"s", "e", "r", "v", "i", "c", "e", ".", "n", "a", "m", "e", "s", "p", "a", "c", "e">>
K_service_version == <<"s", "e", "r", "v", "i", "c", "e", ".", "v", "e", "r", "s", "i", "o", "n">>
K_deployment_environment == <<"d", "e", "p", "l", "o", "y", "m", "e", "n", "t", ".", "e", "n", "v", "i", "r", "o", "n", "m", "e", "n", "t">>
K_coralogix_application == <<"c", "o", "r", "a", "l", "o", "g", "i", "x", ".", "a", "p", "p", "l", "i", "c", "a", "t", "i", "o", "n">>
K_coralogix_subsystem == <<"c", "o", "r", "a", "l", "o", "g", "i", "x", ".", "s", "u", "b", "s", "y", "s", "t", "e", "m">>
K_cx_application_name == <<"c", "x", ".", "a", "p", "p", "l", "i", "c", "a", "t", "i", "o", "n", ".", "n", "a", "m", "e">>
K_cx_subsystem_name == <<"c", "x", ".", "s", "u", "b", "s", "y", "s", "t", "e", "m", ".", "n", "a", "m", "e">>
S_django_application == <<"d", "j", "a", "n", "g", "o", "-", "a", "p", "p", "l", "i", "c", "a", "t", "i", "o", "n">>
S_default == <<"d", "e", "f", "a", "u", "l", "t">>
S_1_0_0 == <<"1", ".", "0", ".", "0">>
S_development == <<"d", "e", "v", "e", "l", "o", "p", "m", "e", "n", "t">>
S_django_app == <<"d", "j", "a", "n", "g", "o", "-", "a", "p", "p">>
S_backend == <<"b", "a", "c", "k", "e", "n", "d">>
S_django_service == <<"d", "j", "a", "n", "g", "o", "-", "s", "e", "r", "v", "i", "c", "e">>
S_production == <<"p", "r", "o", "d", "u", "c", "t", "i", "o", "n">>
S_dash_backend == <<"-", "b", "a", "c", "k", "e", "n", "d">>

\* the characters str.strip() removes, those for which str.isspace() is
\* true: space, \t, \n, \r, \f, then U+000B, U+001C to U+001F, U+0085,
\* U+00A0 and U+1680, written as the characters themselves. The remaining
\* ones (U+2000 to U+200A, U+2028, U+2029, U+202F, U+205F, U+3000) are
\* characters no string of a module can hold, so no input here has them
Whitespace ==
  {" ", "\t", "\n", "\r", "\f",
   "", "", "", "", "", "", " ", " "}

RECURSIVE LStrip(_)
LStrip(s) == IF s # <<>> /\ Head(s) \in Whitespace THEN LStrip(Tail(s)) ELSE s

RECURSIVE RStrip(_)
RStrip(s) ==
  IF s # <<>> /\ s[Len(s)] \in Whitespace
    THEN RStrip(SubSeq(s, 1, Len(s) - 1))
    ELSE s

\* str.strip()
Strip_LeftOnly(s) == LStrip(s)

Strip(s) == RStrip(LStrip(s))

\* str.split(sep): at least one segment, empty segments kept
RECURSIVE SplitAcc(_, _, _)
SplitAcc(s, sep, cur) ==
  IF s = <<>> THEN <<cur>>
  ELSE IF Head(s) = sep THEN <<cur>> \o SplitAcc(Tail(s), sep, <<>>)
  ELSE SplitAcc(Tail(s), sep, Append(cur, Head(s)))

Split(s, sep) == SplitAcc(s, sep, <<>>)

\* c in s, for a one-character c
Contains(s, c) == \E i \in 1..Len(s) : s[i] = c

\* str.split(sep, 1): cut at the first sep, or the whole string
Split1(s, sep) ==
  IF Contains(s, sep)
    THEN LET i == CHOOSE j \in 1..Len(s) :
                     s[j] = sep /\ \A k \in 1..(j - 1) : s[k] # sep
         IN <<SubSeq(s, 1, i - 1), SubSeq(s, i + 1, Len(s))>>
    ELSE <<s>>

\* the guard `if '=' in pair`
HasEq_Always(pair) == TRUE

HasEq(pair) == Contains(pair, "=")

\* an empty dict, d[k] = v, d.update(u), d.get(k, default)
EmptyMap == [k \in {} |-> <<>>]

Put(d, k, v) == [x \in DOMAIN d \cup {k} |-> IF x = k THEN v ELSE d[x]]

Update_KeepExisting(d, u) ==
  [x \in DOMAIN d \cup DOMAIN u |-> IF x \in DOMAIN d THEN d[x] ELSE u[x]]

Update(d, u) ==
  [x \in DOMAIN d \cup DOMAIN u |-> IF x \in DOMAIN u THEN u[x] ELSE d[x]]

Get(d, k, default) == IF k \in DOMAIN d THEN d[k] ELSE default

\* the loop over the comma-separated pairs (utils.py 118-121, config.py
\* 44-47); `key, value = pair.split('=', 1)` raises ValueError unless the
\* split yields two parts
RECURSIVE ParsePairs(_, _)
ParsePairs(pairs, attributes) ==
  IF pairs = <<>> THEN [raised |-> FALSE, value |-> attributes]
  ELSE LET pair == Head(pairs)
           parts == Split1(pair, "=")
       IN IF HasEq(pair)
            THEN IF Len(parts) # 2
                   THEN [raised |-> TRUE, value |-> attributes]
                   ELSE ParsePairs(Tail(pairs),
                                   Put(attributes, Strip(parts[1]), Strip(parts[2])))
            ELSE ParsePairs(Tail(pairs), attributes)

\* utils._parse_k8s_resource_attributes: any exception of the loop is
\* caught and an empty dict returned
parse_k8s_resource_attributes(e) ==
  LET resource_attrs == GetenvS(e, "OTEL_RESOURCE_ATTRIBUTES", <<>>)
      r == ParsePairs(Split(resource_attrs, ","), EmptyMap)
  IN IF resource_attrs = <<>> THEN [raised |-> FALSE, value |-> EmptyMap]
     ELSE IF r.raised THEN [raised |-> FALSE, value |-> EmptyMap]
     ELSE r

\* the base attributes of utils.get_resource_attributes, lines 85-92
UtilsBase(e) ==
  (K_service_name :> GetenvS(e, "OTEL_SERVICE_NAME", S_django_application))
  @@ (K_service_namespace :> GetenvS(e, "OTEL_SERVICE_NAMESPACE", S_default))
  @@ (K_service_version :> GetenvS(e, "OTEL_SERVICE_VERSION", S_1_0_0))
  @@ (K_deployment_environment :>
        GetenvS(e, "OTEL_DEPLOYMENT_ENVIRONMENT", S_development))
  @@ (K_coralogix_application :>
        GetenvS(e, "CORALOGIX_APPLICATION_NAME", S_django_app))
  @@ (K_coralogix_subsystem :> GetenvS(e, "CORALOGIX_SUBSYSTEM_NAME", S_backend))

\* utils.get_resource_attributes
get_resource_attributes(e) ==
  [raised |-> FALSE,
   value |-> Update(UtilsBase(e), parse_k8s_resource_attributes(e).value)]

\* config.get_resource: the mapping handed to Resource.create
get_resource(e) ==
  LET service_name == GetenvS(e, "OTEL_SERVICE_NAME", S_django_service)
      ra == IF TruthyS(e["OTEL_RESOURCE_ATTRIBUTES"])
              THEN ParsePairs(Split(e["OTEL_RESOURCE_ATTRIBUTES"], ","), EmptyMap)
              ELSE [raised |-> FALSE, value |-> EmptyMap]
      resource_attributes == ra.value
      default_attributes ==
        (K_service_name :> service_name)
        @@ (K_service_version :> GetenvS(e, "OTEL_SERVICE_VERSION", S_1_0_0))
        @@ (K_service_namespace :> GetenvS(e, "OTEL_SERVICE_NAMESPACE", S_default))
        @@ (K_deployment_environment :>
              GetenvS(e, "APP_ENVIRONMENT", S_production))
        @@ (K_cx_application_name :>
              Get(resource_attributes, K_cx_application_name, service_name))
        @@ (K_cx_subsystem_name :>
              Get(resource_attributes, K_cx_subsystem_name,
                  service_name \o S_dash_backend))
  IN IF ra.raised THEN [raised |-> TRUE, value |-> EmptyMap]
     ELSE [raised |-> FALSE, value |-> Update(default_attributes, resource_attributes)]

ResEnvNames ==
  {"OTEL_SERVICE_NAME", "OTEL_SERVICE_NAMESPACE", "OTEL_SERVICE_VERSION",
   "OTEL_DEPLOYMENT_ENVIRONMENT", "CORALOGIX_APPLICATION_NAME",
   "CORALOGIX_SUBSYSTEM_NAME", "APP_ENVIRONMENT", "OTEL_RESOURCE_ATTRIBUTES"}

NoCall == [fn |-> "none", raised |-> FALSE, value |-> EmptyMap]

CallParse ==
  /\ rres.fn = "none"
  /\ rres' = [fn |-> "_parse_k8s_resource_attributes"] @@
               parse_k8s_resource_attributes(renv)
  /\ UNCHANGED renv
  /\ ResFrame

CallGetResourceAttributes ==
  /\ rres.fn = "none"
  /\ rres' = [fn |-> "get_resource_attributes"] @@ get_resource_attributes(renv)
  /\ UNCHANGED renv
  /\ ResFrame

CallGetResource ==
  /\ rres.fn = "none"
  /\ rres' = [fn |-> "get_resource"] @@ get_resource(renv)
  /\ UNCHANGED renv
  /\ ResFrame

\* the longest OTEL_RESOURCE_ATTRIBUTES value enumerated character by character
MaxLen == 5

\* the characters of the enumerated values
Chars == {"a", "b", "=", ",", " "}

RECURSIVE StringsUpTo(_)
StringsUpTo(n) ==
  IF n = 0 THEN {<<>>}
  ELSE LET shorter == StringsUpTo(n - 1)
       IN shorter \cup {Append(s, c) : s \in {t \in shorter : Len(t) = n - 1},
                                       c \in Chars}

\* OTEL_RESOURCE_ATTRIBUTES values naming the keys the builders also set
NamedSegments ==
  { K_service_name \o <<"=", "k", "8", "s">>,
    <<" ">> \o K_service_version \o <<" ", "=", " ", "2", " ">>,
    K_coralogix_application \o <<"=", "x">>,
    K_cx_application_name \o <<"=", "y", "=", "z">>,
    K_service_name }

NamedValues ==
  NamedSegments \cup {s \o <<",">> \o t : s \in NamedSegments, t \in NamedSegments}

EmptyResEnv == [k \in ResEnvNames |-> NoneS]

ResEnvs ==
  { [EmptyResEnv EXCEPT !["OTEL_RESOURCE_ATTRIBUTES"] = ra] :
      ra \in {NoneS} \cup StringsUpTo(MaxLen) }
  \cup
  { [EmptyResEnv EXCEPT !["OTEL_RESOURCE_ATTRIBUTES"] = ra,
                        !["OTEL_SERVICE_NAME"] = sn,
                        !["OTEL_SERVICE_VERSION"] = sv,
                        !["CORALOGIX_APPLICATION_NAME"] = app,
                        !["APP_ENVIRONMENT"] = ae] :
      ra \in {NoneS} \cup NamedValues,
      sn \in {NoneS, <<>>, <<"s", "v", "c">>},
      sv \in {NoneS, <<"9">>},
      app \in {NoneS, <<"a", "p", "p">>},
      ae \in {NoneS, <<"q", "a">>} }

InitRes ==
  /\ IdleApp
  /\ IdleRace
  /\ IdleFmt
  /\ IdleLog
  /\ IdleEntry
  /\ IdleProv
  /\ IdleMw
  /\ IdleAttr
  /\ IdleBool
  /\ renv \in ResEnvs
  /\ rres = NoCall

NextRes == CallParse \/ CallGetResourceAttributes \/ CallGetResource

(***************************************************************************)
(* Provider configurator: config.py and otel_config.py                     *)
(* setup_tracing and setup_metrics of the two modules differ only in how   *)
(* the exporter's arguments are built (endpoint suffix, headers); the      *)
(* model covers both. Each function is a transformer of the configurator   *)
(* state st = [providers, current, rootMarked, made], `made` collecting    *)
(* the providers the call constructed.                                     *)
(***************************************************************************)

Signals == {"trace", "metric", "log"}

\* `hasattr(current_provider, "resource") and current_provider.resource`.
\* The SDK's TracerProvider has a `resource` property and the API's proxy
\* has none. Neither the proxy nor the SDK's MeterProvider has an
\* attribute `resource` (the SDK keeps it in _sdk_config), so the probe of
\* setup_metrics is false for every meter provider.
AlreadyConfigured(sig, cur) ==
  IF sig = "trace" THEN cur # 0 ELSE FALSE

\* trace.set_tracer_provider / metrics.set_meter_provider /
\* set_logger_provider: the API sets the global once and refuses overrides
SetGlobal(cur, sig, k) == IF cur[sig] = 0 THEN [cur EXCEPT ![sig] = k] ELSE cur

NewProvider(st, sig, exporters) ==
  [st EXCEPT !.providers = Append(@, [signal |-> sig, exporters |-> exporters]),
             !.made = Append(@, Len(st.providers) + 1)]

\* the exporter a setup function registers: the network exporter when an
\* endpoint is configured and its construction does not raise, else the
\* console exporter (the else branch, or the fallback of the except clause)
ChosenExporter(e, netFails) ==
  IF Truthy(e["OTEL_EXPORTER_OTLP_ENDPOINT"]) /\ ~netFails
    THEN "otlp"
    ELSE "console"

\* the two configurator modules
Modules == {"config", "otel_config"}

\* more string literals, of the exporter arguments
H_Authorization == <<"A", "u", "t", "h", "o", "r", "i", "z", "a", "t", "i", "o", "n">>
H_CX_Application_Name == <<"C", "X", "-", "A", "p", "p", "l", "i", "c", "a", "t", "i", "o", "n", "-", "N", "a", "m", "e">>
H_CX_Subsystem_Name == <<"C", "X", "-", "S", "u", "b", "s", "y", "s", "t", "e", "m", "-", "N", "a", "m", "e">>
S_Bearer == <<"B", "e", "a", "r", "e", "r", " ">>
S_None == <<"N", "o", "n", "e">>

\* str(v) inside an f-string: None prints as "None"
FormatS(v) == IF v = NoneS THEN S_None ELSE v

\* utils.get_coralogix_headers, lines 61-73
get_coralogix_headers(e) ==
  (H_Authorization :> (S_Bearer \o FormatS(e["CORALOGIX_PRIVATE_KEY"])))
  @@ (H_CX_Application_Name :> GetenvS(e, "CORALOGIX_APPLICATION_NAME", S_django_app))
  @@ (H_CX_Subsystem_Name :> GetenvS(e, "CORALOGIX_SUBSYSTEM_NAME", S_backend))

\* the header loop of otel_config (lines 150-152, 194-196, 288-290): no
\* guard on '=', so `key, value = header.split('=', 1)` raises ValueError
\* on a segment without one
RECURSIVE ParseHeaders(_, _)
ParseHeaders(parts, headers) ==
  IF parts = <<>> THEN [raised |-> FALSE, value |-> headers]
  ELSE LET kv == Split1(Head(parts), "=")
       IN IF Len(kv) # 2
            THEN [raised |-> TRUE, value |-> headers]
            ELSE ParseHeaders(Tail(parts), Put(headers, Strip(kv[1]), Strip(kv[2])))

\* the keyword arguments the network exporter is built with: config.py
\* passes endpoint and insecure only (lines 93-96, 141); otel_config passes
\* the endpoint and, when OTEL_EXPORTER_OTLP_HEADERS is set and not empty,
\* the headers parsed from it (lines 145-153)
ExporterKwargs(module, e) ==
  IF module = "otel_config" /\ TruthyS(e["OTEL_EXPORTER_OTLP_HEADERS"])
    THEN LET h == ParseHeaders(Split(e["OTEL_EXPORTER_OTLP_HEADERS"], ","), EmptyMap)
         IN [raised |-> h.raised, hasHeaders |-> TRUE, headers |-> h.value]
    ELSE [raised |-> FALSE, hasHeaders |-> FALSE, headers |-> EmptyMap]

\* the try block raises: the exporter's constructor does (netFails), or the
\* header loop before it
TryFails(st, e, netFails) == netFails \/ ExporterKwargs(st.module, e).raised

\* the network exporter of a signal was instantiated: its arguments are kept
NoteExporter(st, sig, e, fails) ==
  IF Truthy(e["OTEL_EXPORTER_OTLP_ENDPOINT"]) /\ ~fails
    THEN [st EXCEPT !.kwargs =
            Append(@, [signal |-> sig, module |-> st.module,
                       hasHeaders |-> ExporterKwargs(st.module, e).hasHeaders,
                       headers |-> ExporterKwargs(st.module, e).headers])]
    ELSE st

\* the try block of a setup function was entered and raised
NoteFailure(st, sig, e, netFails) ==
  IF Truthy(e["OTEL_EXPORTER_OTLP_ENDPOINT"]) /\ netFails
    THEN [st EXCEPT !.netFailed = @ \cup {sig}]
    ELSE st

\* setup_tracing (config.py 65-106, otel_config.py 124-170); netFails: the
\* try block raises before the network exporter's processor is added
setup_tracing(st, e, netFails) ==
  IF AlreadyConfigured("trace", st.current["trace"]) THEN st
  ELSE LET fails == TryFails(st, e, netFails)
           made == NewProvider(NoteFailure(st, "trace", e, fails), "trace",
                               <<ChosenExporter(e, fails)>>)
       IN NoteExporter([made EXCEPT !.current =
                                      SetGlobal(@, "trace", Len(made.providers))],
                       "trace", e, fails)

\* setup_metrics (config.py 117-170, otel_config.py 173-231)
setup_metrics(st, e, netFails) ==
  IF AlreadyConfigured("metric", st.current["metric"]) THEN st
  ELSE LET fails == TryFails(st, e, netFails)
           made == NewProvider(NoteFailure(st, "metric", e, fails), "metric",
                               <<ChosenExporter(e, fails)>>)
       IN NoteExporter([made EXCEPT !.current =
                                      SetGlobal(@, "metric", Len(made.providers))],
                       "metric", e, fails)

S_true == <<"t", "r", "u", "e">>

\* the characters str.lower() turns into a letter of "true": the letter
\* itself and its ASCII capital. No other character lowers to one of these
\* four letters, as the whole of its lower case or as a part of it
LowersTo(c) ==
  CASE c = "t" -> {"t", "T"}
    [] c = "r" -> {"r", "R"}
    [] c = "u" -> {"u", "U"}
    [] c = "e" -> {"e", "E"}

\* s.lower() == "true", utils.py 157
LowerIsTrue(s) ==
  /\ Len(s) = Len(S_true)
  /\ \A i \in DOMAIN S_true : s[i] \in LowersTo(S_true[i])

\* the names get_enabled_instrumentations lists, utils.py 166-174
InstrumentationNames ==
  <<"django", "requests", "psycopg2", "logging", "kafka", "wsgi", "asgi">>

\* f"OTEL_PYTHON_{instrumentation_name.upper()}_INSTRUMENT", utils.py 156
ToggleName(instrumentation_name) ==
  CASE instrumentation_name = "django" -> "OTEL_PYTHON_DJANGO_INSTRUMENT"
    [] instrumentation_name = "requests" -> "OTEL_PYTHON_REQUESTS_INSTRUMENT"
    [] instrumentation_name = "psycopg2" -> "OTEL_PYTHON_PSYCOPG2_INSTRUMENT"
    [] instrumentation_name = "logging" -> "OTEL_PYTHON_LOGGING_INSTRUMENT"
    [] instrumentation_name = "kafka" -> "OTEL_PYTHON_KAFKA_INSTRUMENT"
    [] instrumentation_name = "wsgi" -> "OTEL_PYTHON_WSGI_INSTRUMENT"
    [] instrumentation_name = "asgi" -> "OTEL_PYTHON_ASGI_INSTRUMENT"

\* utils.is_instrumentation_enabled, lines 145-157
is_instrumentation_enabled(e, instrumentation_name) ==
  LowerIsTrue(GetenvS(e, ToggleName(instrumentation_name), S_true))

\* utils.get_enabled_instrumentations, lines 160-177
get_enabled_instrumentations(e) ==
  SelectSeq(InstrumentationNames, LAMBDA inst : is_instrumentation_enabled(e, inst))

\* the integrations setup_instrumentation handles, in the order of the code
Integrations == <<"django", "psycopg2", "requests", "kafka", "logging">>

IntegrationSet == {Integrations[i] : i \in DOMAIN Integrations}

\* the fault of one call: the instrument() of one integration raises, or
\* none
Failings == {"none", "django", "psycopg2", "requests", "kafka", "logging"}

\* faults of otel_config that come from settings.DJANGO_CORALOGIX_OTEL: the
\* setting is not a mapping, so its .get raises (lines 109 and 260), or its
\* CUSTOM_RESOURCE_ATTRIBUTES is not one, so resource_attrs.update raises
\* (line 119)
SettingsFaults == {"bad_settings", "bad_custom_attributes"}

\* the faults of a call into otel_config: those above, and the import of
\* the optional Kafka package raising ImportError (line 262). config.py
\* reads no settings and imports its Kafka integration with the module
FailingsOf(module) ==
  IF module = "config" THEN Failings
  ELSE Failings \cup {"kafka_import"} \cup SettingsFaults

\* X().instrument(): the call is counted as a repeat when the integration
\* is already instrumented; BaseInstrumentor then returns without effect.
\* When it raises, the flag stays unset
InvokeInstrument(st, lib, failing) ==
  LET called == [st EXCEPT !.attempted = @ \cup {lib},
                           !.reinvoked = IF lib \in st.instrumented
                                           THEN @ \cup {lib} ELSE @]
  IN IF lib \in st.instrumented THEN called
     ELSE IF failing = lib
       THEN [called EXCEPT !.failed = @ \cup {lib}, !.raised = TRUE]
     ELSE [called EXCEPT !.instrumented = @ \cup {lib}]

\* `if not X().is_instrumented_by_opentelemetry: X().instrument()`
ProbeThenInstrument(st, lib, failing) ==
  IF lib \in st.instrumented
    THEN [st EXCEPT !.attempted = @ \cup {lib}]
    ELSE InvokeInstrument(st, lib, failing)

\* an except clause that logs and goes on
Swallow(st) == [st EXCEPT !.raised = FALSE]

\* the Django, Psycopg2 and Requests blocks, which both modules share
\* (config.py 179-191, otel_config.py 245-257): no handler between them
InstrumentWebStack(st, failing) ==
  LET Then(a, lib) == IF a.raised THEN a ELSE ProbeThenInstrument(a, lib, failing)
  IN Then(Then(ProbeThenInstrument(st, "django", failing), "psycopg2"), "requests")

\* config.setup_instrumentation, lines 173-206: one try around everything,
\* a handler of its own for Kafka only (194-199), and
\* LoggingInstrumentor().instrument() of line 202 without a probe
config_setup_instrumentation(st, failing) ==
  LET Kafka(c) ==
        IF c.raised THEN c ELSE Swallow(ProbeThenInstrument(c, "kafka", failing))
      Logging(k) == IF k.raised THEN k ELSE InvokeInstrument(k, "logging", failing)
  IN Swallow(Logging(Kafka(InstrumentWebStack(st, failing))))

\* the Kafka block of otel_config.setup_instrumentation, lines 260-267, with
\* ENABLE_KAFKA_INSTRUMENTATION at its default: only ImportError is caught,
\* which the import of line 262 raises when the package is missing; an
\* exception of instrument() (line 264) leaves the block
otel_config_kafka(st, failing) ==
  IF failing = "kafka_import"
    THEN [st EXCEPT !.attempted = @ \cup {"kafka"}, !.failed = @ \cup {"kafka"}]
    ELSE ProbeThenInstrument(st, "kafka", failing)

\* otel_config.get_resource, lines 99-121, raises: only ImportError is
\* caught, around the read of the setting
get_resource_raises(failing) == failing \in SettingsFaults

\* otel_config.setup_tracing and setup_metrics call get_resource() first
\* (lines 126 and 175), outside any try
otel_config_setup_tracing(st, e, netFails, failing) ==
  IF get_resource_raises(failing) THEN [st EXCEPT !.raised = TRUE]
  ELSE setup_tracing(st, e, netFails)

otel_config_setup_metrics(st, e, netFails, failing) ==
  IF get_resource_raises(failing) THEN [st EXCEPT !.raised = TRUE]
  ELSE setup_metrics(st, e, netFails)

\* lines 282-301 of otel_config.setup_instrumentation: the LoggerProvider
\* is constructed (line 293, after the header loop and get_resource())
\* before the exporter; whatever raises, the except clause of line 300
\* only logs
LogProvider(st, e, netFails, failing) ==
  IF ~Truthy(e["OTEL_EXPORTER_OTLP_ENDPOINT"]) THEN st
  ELSE IF ExporterKwargs(st.module, e).raised \/ get_resource_raises(failing)
    THEN NoteFailure(st, "log", e, TRUE)
  ELSE IF netFails
    THEN NewProvider(NoteFailure(st, "log", e, netFails), "log", <<>>)
  ELSE LET made == NewProvider(st, "log", <<"otlp">>)
       IN NoteExporter([made EXCEPT
                          !.current = SetGlobal(@, "log", Len(made.providers))],
                       "log", e, FALSE)

\* otel_config.setup_instrumentation, lines 234-318: one try around
\* everything; custom_config.get of line 260 raises on a setting that is
\* not a mapping; the logging part (275-315) runs once per process, guarded
\* by the mark on the root logger, which line 313 sets after instrument()
setup_instrumentation(st, e, failing, netFails) ==
  LET Kafka(c) ==
        IF c.raised THEN c
        ELSE IF failing = "bad_settings" THEN [c EXCEPT !.raised = TRUE]
        ELSE otel_config_kafka(c, failing)
      Mark(done) == IF done.raised THEN done ELSE [done EXCEPT !.rootMarked = TRUE]
      Logging(k) ==
        IF k.raised THEN k
        ELSE IF k.rootMarked THEN [k EXCEPT !.attempted = @ \cup {"logging"}]
        ELSE Mark(InvokeInstrument(LogProvider(k, e, netFails, failing), "logging",
                                   failing))
  IN Swallow(Logging(Kafka(InstrumentWebStack(st, failing))))

\* config.configure_opentelemetry, lines 209-227
configure_opentelemetry(st, e, traceFails, metricFails, failing) ==
  IF ~Truthy(e["OTEL_PYTHON_INSTRUMENTATION_ENABLED"])
    THEN config_setup_instrumentation(
           setup_metrics(setup_tracing(st, e, traceFails), e, metricFails), failing)
    ELSE st

\* utils.validate_environment_variables, lines 14-58: both required
\* variables are set and not empty
validate_environment_variables(e) ==
  /\ TruthyS(e["CORALOGIX_PRIVATE_KEY"])
  /\ Truthy(e["OTEL_EXPORTER_OTLP_ENDPOINT"])

\* utils.safe_configure_opentelemetry, lines 233-254. available: the
\* imports of is_opentelemetry_available succeed; importFails: the import of
\* .config (line 249) raises, which the except clause of line 252 answers
\* with False. The value returned is the one config.configure_opentelemetry
\* returns, and that function has no return statement
safe_configure_opentelemetry(st, e, available, importFails, traceFails, metricFails, failing) ==
  IF ~validate_environment_variables(e) THEN [st EXCEPT !.ret = "False"]
  ELSE IF ~available THEN [st EXCEPT !.ret = "False"]
  ELSE IF importFails THEN [st EXCEPT !.ret = "False"]
  ELSE [configure_opentelemetry(st, e, traceFails, metricFails, failing)
          EXCEPT !.ret = "None", !.ran = TRUE]

\* the most calls one behaviour makes
MaxCalls == 3

\* the configurator state a call starts in
ProvState ==
  [providers |-> providers, current |-> current, rootMarked |-> rootMarked,
   made |-> <<>>, netFailed |-> {}, module |-> "config", kwargs |-> <<>>,
   instrumented |-> instrumented, attempted |-> {}, reinvoked |-> {},
   failed |-> {}, raised |-> FALSE, ret |-> "None", ran |-> FALSE]

\* the call of fn ended in the state st
Returned(fn, st) ==
  /\ pcalls' = pcalls + 1
  /\ providers' = st.providers
  /\ current' = st.current
  /\ rootMarked' = st.rootMarked
  /\ instrumented' = st.instrumented
  /\ plast' = [fn |-> fn, netFailed |-> st.netFailed, made |-> st.made,
               module |-> st.module, kwargs |-> st.kwargs,
               attempted |-> st.attempted, reinvoked |-> st.reinvoked,
               failed |-> st.failed, raised |-> st.raised,
               ret |-> st.ret, ran |-> st.ran]

SetupTracing ==
  /\ pcalls < MaxCalls
  /\ \E module \in Modules, netFails \in BOOLEAN :
       \E failing \in {"none"} \cup (FailingsOf(module) \cap SettingsFaults) :
          Returned("setup_tracing",
                   IF module = "config"
                     THEN setup_tracing([ProvState EXCEPT !.module = module], penv,
                                        netFails)
                     ELSE otel_config_setup_tracing(
                            [ProvState EXCEPT !.module = module], penv, netFails,
                            failing))
  /\ UNCHANGED penv
  /\ ProvFrame

SetupMetrics ==
  /\ pcalls < MaxCalls
  /\ \E module \in Modules, netFails \in BOOLEAN :
       \E failing \in {"none"} \cup (FailingsOf(module) \cap SettingsFaults) :
          Returned("setup_metrics",
                   IF module = "config"
                     THEN setup_metrics([ProvState EXCEPT !.module = module], penv,
                                        netFails)
                     ELSE otel_config_setup_metrics(
                            [ProvState EXCEPT !.module = module], penv, netFails,
                            failing))
  /\ UNCHANGED penv
  /\ ProvFrame

SetupInstrumentation ==
  /\ pcalls < MaxCalls
  /\ \E module \in Modules, netFails \in BOOLEAN :
     \E failing \in FailingsOf(module) :
       /\ module = "config" => ~netFails
       /\ Returned("setup_instrumentation",
                   IF module = "config"
                     THEN config_setup_instrumentation(
                            [ProvState EXCEPT !.module = module], failing)
                     ELSE setup_instrumentation(
                            [ProvState EXCEPT !.module = module],
                            penv, failing, netFails))
  /\ UNCHANGED penv
  /\ ProvFrame

ConfigureOpentelemetry ==
  /\ pcalls < MaxCalls
  /\ \E traceFails \in BOOLEAN, metricFails \in BOOLEAN, failing \in Failings :
       Returned("configure_opentelemetry",
                configure_opentelemetry(ProvState, penv, traceFails, metricFails,
                                        failing))
  /\ UNCHANGED penv
  /\ ProvFrame

SafeConfigureOpentelemetry ==
  /\ pcalls < MaxCalls
  /\ \E available \in BOOLEAN, importFails \in BOOLEAN, traceFails \in BOOLEAN,
        metricFails \in BOOLEAN, failing \in Failings :
       Returned("safe_configure_opentelemetry",
                safe_configure_opentelemetry(ProvState, penv, available, importFails,
                                             traceFails, metricFails, failing))
  /\ UNCHANGED penv
  /\ ProvFrame

\* values of OTEL_EXPORTER_OTLP_HEADERS: unset, one header, a segment
\* without '='
HeaderValues ==
  { NoneS,
    H_Authorization \o <<"=">> \o S_Bearer \o <<"k">>,
    H_Authorization }

\* values of a per-library toggle: unset, "False"
ToggleValues ==
  { NoneS, <<"F", "a", "l", "s", "e">> }

ProvEnvs ==
  { [OTEL_EXPORTER_OTLP_ENDPOINT |-> ep, OTEL_PYTHON_INSTRUMENTATION_ENABLED |-> on,
     OTEL_EXPORTER_OTLP_HEADERS |-> hd, CORALOGIX_PRIVATE_KEY |-> key,
     CORALOGIX_APPLICATION_NAME |-> IF key = NoneS THEN NoneS
                                    ELSE <<"s", "h", "o", "p">>,
     CORALOGIX_SUBSYSTEM_NAME |-> NoneS,
     OTEL_PYTHON_DJANGO_INSTRUMENT |-> dj, OTEL_PYTHON_REQUESTS_INSTRUMENT |-> NoneS,
     OTEL_PYTHON_PSYCOPG2_INSTRUMENT |-> NoneS, OTEL_PYTHON_LOGGING_INSTRUMENT |-> NoneS,
     OTEL_PYTHON_KAFKA_INSTRUMENT |-> NoneS, OTEL_PYTHON_WSGI_INSTRUMENT |-> NoneS,
     OTEL_PYTHON_ASGI_INSTRUMENT |-> NoneS] :
      dj \in ToggleValues,
      ep \in {None, "", "http://collector:4317"},
      on \in {None, "true"},
      hd \in HeaderValues,
      key \in {NoneS, <<"k">>} }

\* a process starts with the API's proxies, or, under opentelemetry-instrument,
\* with providers the launcher installed
InitProv ==
  /\ IdleApp
  /\ IdleRace
  /\ IdleFmt
  /\ IdleLog
  /\ IdleEntry
  /\ IdleRes
  /\ IdleMw
  /\ IdleAttr
  /\ IdleBool
  /\ penv \in ProvEnvs
  /\ providers = <<>>
  /\ current \in {[sig \in Signals |-> 0], [sig \in Signals |-> -1]}
  /\ rootMarked = FALSE
  /\ instrumented = {}
  /\ pcalls = 0
  /\ plast = [fn |-> "none", netFailed |-> {}, made |-> <<>>,
              module |-> "config", kwargs |-> <<>>,
              attempted |-> {}, reinvoked |-> {}, failed |-> {}, raised |-> FALSE,
              ret |-> "None", ran |-> FALSE]

NextProv ==
  SetupTracing \/ SetupMetrics \/ SetupInstrumentation \/ ConfigureOpentelemetry

\* a process that configures through the safe wrapper only
NextSafe == SafeConfigureOpentelemetry

(***************************************************************************)
(* Request middleware: OpenTelemetryMiddleware (middleware.py), driven by  *)
(* MiddlewareMixin.__call__: process_request, get_response,                *)
(* process_response; the framework calls process_exception when the view   *)
(* raises and then answers with a 500 response.                            *)
(* The module's guarded import fails (config.py has no get_tracer), so     *)
(* __init__ leaves self.tracer None and every hook returns at its guard:   *)
(* SpecMw is the middleware as it is constructed. SpecHooks runs the same  *)
(* hooks on an instance whose tracer attribute may hold a tracer, which is *)
(* more than __init__ produces; it is there for what the hooks' own code   *)
(* guarantees beyond their guards.                                         *)
(* The hooks take no lock and the instance is shared by the threads of the *)
(* server, so each hook is split at its telemetry calls. In process_request *)
(* every self.current_span.set_attribute(key, argument) of lines 121-148   *)
(* is two steps: the thread reads self.current_span, then it evaluates the *)
(* argument (request.build_absolute_uri(), str(request.user), ...) and     *)
(* makes the call on the span it read; another thread can assign           *)
(* self.current_span in between. Line 62 reads self.current_span anew. The *)
(* calls of process_response and process_exception go to                   *)
(* request.opentelemetry_span, which two requests can share.               *)
(***************************************************************************)

\* the requests in flight on one middleware instance
MaxReqs == 2

Reqs == 1..MaxReqs

\* the status codes the wrapped handler answers with
Statuses == {200, 404}

\* request.resolver_match is set when process_request runs: the framework
\* resolves the URL after the request middleware, so it is set only for a
\* request handed over already resolved; request 1 is such a request
HasResolver(r) == r = 1

\* a span: its attribute keys, its http.status_code attribute (-1: not set),
\* its status, whether an exception was recorded, how often it was ended,
\* and whether a call of its end() raised
NoSpan ==
  [started |-> FALSE, keys |-> {}, statusCode |-> -1, status |-> "UNSET",
   exception |-> FALSE, ended |-> 0, endRaised |-> FALSE]

NewSpan == [NoSpan EXCEPT !.started = TRUE]

\* the set_attribute calls of process_request, in order: _add_http_attributes
\* (121-126), _add_coralogix_attributes (131-134), _add_django_attributes
\* (138-148)
RequestCalls(hasResolver) ==
  [i \in 1..6 |->
     [op |-> "attr", val |-> -1,
      key |-> <<"http.method", "http.url", "http.user_agent", "http.client_ip",
                "http.host", "http.scheme">>[i]]]
  \o [i \in 1..4 |->
        [op |-> "attr", val |-> -1,
         key |-> <<"cx.application.name", "cx.subsystem.name", "service.name",
                   "deployment.environment">>[i]]]
  \o (IF hasResolver
        THEN [i \in 1..3 |->
                [op |-> "attr", val |-> -1,
                 key |-> <<"django.view_name", "django.url_name",
                           "django.app_name">>[i]]]
        ELSE <<>>)
  \o [i \in 1..2 |->
        [op |-> "attr", val |-> -1,
         key |-> <<"django.user", "django.session">>[i]]]

\* _set_span_status, lines 150-157
SpanStatusFor(status_code) ==
  IF 500 <= status_code /\ status_code <= 599 THEN "ERROR"
  ELSE IF 400 <= status_code /\ status_code <= 499 THEN "ERROR"
  ELSE "OK"

\* the telemetry calls of process_response, lines 79-87
ResponseCalls(status_code) ==
  << [op |-> "attr", key |-> "http.status_code", val |-> status_code],
     [op |-> "attr", key |-> "http.response_size", val |-> -1],
     [op |-> "attr", key |-> "http.duration", val |-> -1],
     [op |-> "status", key |-> SpanStatusFor(status_code), val |-> -1],
     [op |-> "end", key |-> "", val |-> -1] >>

\* the telemetry calls of process_exception, lines 104-108
ExceptionCalls ==
  << [op |-> "exception", key |-> "", val |-> -1],
     [op |-> "status", key |-> "ERROR", val |-> -1],
     [op |-> "attr", key |-> "error", val |-> -1],
     [op |-> "attr", key |-> "error.type", val |-> -1],
     [op |-> "attr", key |-> "error.message", val |-> -1] >>

\* one telemetry call on a span
ApplyCall(span, c) ==
  CASE c.op = "attr" ->
         [span EXCEPT !.keys = @ \cup {c.key},
                      !.statusCode = IF c.key = "http.status_code" THEN c.val ELSE @]
    [] c.op = "status" -> [span EXCEPT !.status = c.key]
    [] c.op = "exception" -> [span EXCEPT !.exception = TRUE]
    [] c.op = "end" -> [span EXCEPT !.ended = @ + 1]

\* the calls of a sequence made to raise: any one of them, or none (0)
FailPoints(calls) == 0..Len(calls)

\* the calls that can raise on the spans in use: the methods of the API's
\* non-recording span do nothing and raise nothing, but the argument of a
\* set_attribute call is read from the request or the response before the
\* call (request.build_absolute_uri(), len(response.content)) and raises
\* whatever the span is
RaisePoints(calls) ==
  IF recording THEN FailPoints(calls)
  ELSE {i \in FailPoints(calls) : i = 0 \/ calls[i].op = "attr"}

\* call number i of a hook can be made to raise
CanRaise(calls, i) == i \in RaisePoints(calls)

\* the except clauses of process_request (65), process_response (89) and
\* process_exception (109) catch every Exception
process_request_catches == TRUE

process_response_catches_Missing == FALSE

process_response_catches == TRUE

process_exception_catches == TRUE

\* an exception left the middleware: MiddlewareMixin.__call__ has no handler
Propagate(r) ==
  /\ propagated' = [propagated EXCEPT ![r] = TRUE]
  /\ mpc' = [mpc EXCEPT ![r] = "done"]

\* process_request lines 45-51: the span is started and stored
ProcessRequestStart(r) ==
  /\ mpc[r] = "idle"
  /\ IF ~tracer
       THEN /\ mpc' = [mpc EXCEPT ![r] = "view"]
            /\ UNCHANGED <<spans, currentSpan, telFailed, propagated>>
       ELSE \E startFails \in BOOLEAN :
              IF startFails
                THEN /\ telFailed' = [telFailed EXCEPT ![r] = TRUE]
                     /\ IF process_request_catches
                          THEN mpc' = [mpc EXCEPT ![r] = "view"]
                               /\ UNCHANGED propagated
                          ELSE Propagate(r)
                     /\ UNCHANGED <<spans, currentSpan>>
                ELSE /\ spans' = [spans EXCEPT ![r] = NewSpan]
                     /\ currentSpan' = r
                     /\ mpc' = [mpc EXCEPT ![r] = "attrs"]
                     /\ UNCHANGED <<telFailed, propagated>>
  /\ UNCHANGED <<tracer, recording, handlerCalls, callsDone, held, reqSpan, handlerResp,
                 returned>>
  /\ MwFrame

\* process_request lines 54-60, first half of the next
\* self.current_span.set_attribute call: the thread reads self.current_span
ProcessRequestRead(r) ==
  /\ mpc[r] = "attrs"
  /\ held[r] = 0
  /\ callsDone[r] < Len(RequestCalls(HasResolver(r)))
  /\ held' = [held EXCEPT ![r] = currentSpan]
  /\ UNCHANGED <<tracer, recording, handlerCalls, currentSpan, spans, mpc, callsDone,
                 reqSpan, handlerResp, returned, propagated, telFailed>>
  /\ MwFrame

\* process_request lines 54-60, second half: the argument is evaluated and
\* set_attribute is called on the span the thread read, whatever
\* self.current_span names by now. A call that raises ends process_request
\* in its except clause
ProcessRequestAttrs(r) ==
  /\ mpc[r] = "attrs"
  /\ held[r] # 0
  /\ LET calls == RequestCalls(HasResolver(r))
         next == callsDone[r] + 1
     IN \E fails \in {CanRaise(calls, next), FALSE} :
          IF fails
            THEN /\ telFailed' = [telFailed EXCEPT ![r] = TRUE]
                 /\ IF process_request_catches
                      THEN mpc' = [mpc EXCEPT ![r] = "view"]
                           /\ UNCHANGED propagated
                      ELSE Propagate(r)
                 /\ UNCHANGED <<spans, callsDone>>
            ELSE /\ spans' = [spans EXCEPT ![held[r]] = ApplyCall(@, calls[next])]
                 /\ callsDone' = [callsDone EXCEPT ![r] = next]
                 /\ UNCHANGED <<mpc, telFailed, propagated>>
  /\ held' = [held EXCEPT ![r] = 0]
  /\ UNCHANGED <<tracer, recording, handlerCalls, currentSpan, reqSpan, handlerResp, returned>>
  /\ MwFrame

\* process_request line 62: request.opentelemetry_span = self.current_span,
\* reached when no call raised
ProcessRequestStore(r) ==
  /\ mpc[r] = "attrs"
  /\ held[r] = 0
  /\ callsDone[r] = Len(RequestCalls(HasResolver(r)))
  /\ reqSpan' = [reqSpan EXCEPT ![r] = currentSpan]
  /\ mpc' = [mpc EXCEPT ![r] = "view"]
  /\ UNCHANGED <<tracer, recording, handlerCalls, currentSpan, spans, callsDone, held,
                 handlerResp, returned, propagated, telFailed>>
  /\ MwFrame

\* self.get_response(request) returns the view's response
ViewReturns(r) ==
  /\ mpc[r] = "view"
  /\ \E status_code \in Statuses :
       handlerResp' = [handlerResp EXCEPT ![r] = status_code]
  /\ mpc' = [mpc EXCEPT ![r] = "respond"]
  /\ callsDone' = [callsDone EXCEPT ![r] = 0]
  /\ UNCHANGED <<tracer, recording, currentSpan, spans, held, reqSpan, returned, propagated,
                 telFailed>>
  /\ handlerCalls' = [handlerCalls EXCEPT ![r] = @ + 1]
  /\ MwFrame

\* self.get_response(request): the view raises and the framework calls
\* process_exception, whose guard of line 102 decides whether it does
\* anything; the framework then answers 500
ViewRaises(r) ==
  /\ mpc[r] = "view"
  /\ IF reqSpan[r] # 0 /\ tracer
       THEN /\ mpc' = [mpc EXCEPT ![r] = "exception"]
            /\ UNCHANGED handlerResp
       ELSE /\ handlerResp' = [handlerResp EXCEPT ![r] = 500]
            /\ mpc' = [mpc EXCEPT ![r] = "respond"]
  /\ callsDone' = [callsDone EXCEPT ![r] = 0]
  /\ handlerCalls' = [handlerCalls EXCEPT ![r] = @ + 1]
  /\ UNCHANGED <<tracer, recording, currentSpan, spans, held, reqSpan, returned, propagated,
                 telFailed>>
  /\ MwFrame

\* process_exception, lines 104-110: its next call on
\* request.opentelemetry_span; a call that raises ends the hook in its
\* except clause
ProcessException(r) ==
  /\ mpc[r] = "exception"
  /\ LET next == callsDone[r] + 1
     IN \E fails \in {CanRaise(ExceptionCalls, next), FALSE} :
          /\ telFailed' = [telFailed EXCEPT ![r] = @ \/ fails]
          /\ spans' = IF fails THEN spans
                      ELSE [spans EXCEPT ![reqSpan[r]] = ApplyCall(@, ExceptionCalls[next])]
          /\ IF fails /\ ~process_exception_catches
               THEN Propagate(r) /\ UNCHANGED <<handlerResp, callsDone>>
               ELSE IF fails \/ next = Len(ExceptionCalls)
                 THEN /\ handlerResp' = [handlerResp EXCEPT ![r] = 500]
                      /\ mpc' = [mpc EXCEPT ![r] = "respond"]
                      /\ callsDone' = [callsDone EXCEPT ![r] = 0]
                      /\ UNCHANGED propagated
                 ELSE /\ callsDone' = [callsDone EXCEPT ![r] = next]
                      /\ UNCHANGED <<handlerResp, mpc, propagated>>
  /\ UNCHANGED <<tracer, recording, handlerCalls, currentSpan, held, reqSpan, returned>>
  /\ MwFrame

\* process_response, lines 69-98: the guard of line 71, or the next call of
\* lines 79-87 on request.opentelemetry_span. fails: the call raises, and
\* the except clause calls span.end() (line 94); endFails: that call raises
\* as well
ProcessResponse(r) ==
  /\ mpc[r] = "respond"
  /\ IF reqSpan[r] = 0 \/ ~tracer
       THEN /\ returned' = [returned EXCEPT ![r] = handlerResp[r]]
            /\ mpc' = [mpc EXCEPT ![r] = "done"]
            /\ UNCHANGED <<spans, telFailed, propagated, callsDone>>
       ELSE LET calls == ResponseCalls(handlerResp[r])
                next == callsDone[r] + 1
                span == spans[reqSpan[r]]
            IN \E fails \in {CanRaise(calls, next), FALSE}, endFails \in BOOLEAN :
                 LET caught == IF process_response_catches /\ ~endFails
                                 THEN ApplyCall(span, calls[Len(calls)])
                                 ELSE span
                     ended == [caught EXCEPT
                                 !.endRaised = @ \/ next = Len(calls) \/ endFails]
                 IN /\ endFails => (fails /\ recording)
                    /\ telFailed' = [telFailed EXCEPT ![r] = @ \/ fails]
                    /\ spans' = [spans EXCEPT ![reqSpan[r]] =
                                   IF fails THEN ended ELSE ApplyCall(span, calls[next])]
                    /\ IF fails /\ ~process_response_catches
                         THEN Propagate(r) /\ UNCHANGED <<returned, callsDone>>
                         ELSE IF fails \/ next = Len(calls)
                           THEN /\ returned' = [returned EXCEPT ![r] = handlerResp[r]]
                                /\ mpc' = [mpc EXCEPT ![r] = "done"]
                                /\ UNCHANGED <<propagated, callsDone>>
                           ELSE /\ callsDone' = [callsDone EXCEPT ![r] = next]
                                /\ UNCHANGED <<returned, mpc, propagated>>
  /\ UNCHANGED <<tracer, recording, handlerCalls, currentSpan, held, reqSpan, handlerResp>>
  /\ MwFrame

\* process_request, lines 43-67: the step the thread of request r is at
ProcessRequest(r) ==
  IF mpc[r] = "idle" THEN ProcessRequestStart(r)
  ELSE IF held[r] # 0 THEN ProcessRequestAttrs(r)
  ELSE IF callsDone[r] < Len(RequestCalls(HasResolver(r))) THEN ProcessRequestRead(r)
  ELSE ProcessRequestStore(r)

\* the view raises and the framework calls process_exception, lines
\* 100-110: the raise, or the hook's next call
process_exception(r) ==
  IF mpc[r] = "exception" THEN ProcessException(r) ELSE ViewRaises(r)

\* the guarded import of lines 12-22: `from .config import get_tracer`
\* raises ImportError, config.py defining no get_tracer, and the except
\* clause sets trace = None, get_tracer = None and
\* is_opentelemetry_available = lambda: False
get_tracer_imported_Defined == TRUE

get_tracer_imported == FALSE

\* __init__, lines 31-41: self.tracer is None unless
\* is_opentelemetry_available() answers true and get_tracer returns a
\* tracer. available: the opentelemetry package can be imported;
\* getTracerRaises: the call of line 38 raises
init_tracer(available, getTracerRaises) ==
  /\ get_tracer_imported
  /\ available
  /\ ~getTracerRaises

\* no request has arrived
NoRequests ==
  /\ IdleApp
  /\ IdleRace
  /\ IdleFmt
  /\ IdleLog
  /\ IdleEntry
  /\ IdleRes
  /\ IdleProv
  /\ IdleAttr
  /\ IdleBool
  /\ handlerCalls = [r \in Reqs |-> 0]
  /\ currentSpan = 0
  /\ spans = [r \in Reqs |-> NoSpan]
  /\ mpc = [r \in Reqs |-> "idle"]
  /\ callsDone = [r \in Reqs |-> 0]
  /\ held = [r \in Reqs |-> 0]
  /\ reqSpan = [r \in Reqs |-> 0]
  /\ handlerResp = [r \in Reqs |-> -1]
  /\ returned = [r \in Reqs |-> -1]
  /\ propagated = [r \in Reqs |-> FALSE]
  /\ telFailed = [r \in Reqs |-> FALSE]

\* the middleware as __init__ builds it. recording: the process has an SDK
\* tracer provider and samples the requests, so the span that is current
\* while a request is handled, and any span a tracer would start, records;
\* otherwise they are the API's non-recording spans
InitMw ==
  /\ NoRequests
  /\ tracer \in {init_tracer(available, getTracerRaises) :
                    available \in BOOLEAN, getTracerRaises \in BOOLEAN}
  /\ recording \in BOOLEAN

NextMw ==
  \E r \in Reqs :
     \/ ProcessRequest(r)
     \/ ViewReturns(r)
     \/ process_exception(r)
     \/ ProcessResponse(r)

\* the hooks on an instance whose tracer attribute holds a tracer or None,
\* whatever __init__ would have left there
InitHooks ==
  /\ NoRequests
  /\ tracer \in BOOLEAN
  /\ recording \in {b \in BOOLEAN : tracer \/ ~b}

NextHooks ==
  \E r \in Reqs :
     \/ ProcessRequestStart(r)
     \/ ProcessRequestRead(r)
     \/ ProcessRequestAttrs(r)
     \/ ProcessRequestStore(r)
     \/ ViewReturns(r)
     \/ ViewRaises(r)
     \/ ProcessException(r)
     \/ ProcessResponse(r)

(***************************************************************************)
(* The middleware's readers of a request: _get_client_ip and the values    *)
(* _add_http_attributes, _add_coralogix_attributes and                     *)
(* _add_django_attributes hand to span.set_attribute.                      *)
(* A Python value is [t, v]: its type and, as characters, its str().       *)
(***************************************************************************)

PyStr(chars) == [t |-> "str", v |-> chars]

PyNone == [t |-> "none", v |-> S_None]

\* a key a mapping does not hold
PyAbsent == [t |-> "absent", v |-> <<>>]

\* per built-in type, the str() of its values that bool() takes for false:
\* the zeros of the numbers (0.0, -0.0, 0j, -0j, (-0+0j), (-0-0j)) and the
\* empty containers ({}, [], (), set(), frozenset(), b'', bytearray(b''))
FalseForms ==
  [float |-> {<<"0", ".", "0">>, <<"-", "0", ".", "0">>},
   complex |-> {<<"0", "j">>, <<"-", "0", "j">>,
                <<"(", "-", "0", "+", "0", "j", ")">>,
                <<"(", "-", "0", "-", "0", "j", ")">>},
   dict |-> {<<"{", "}">>},
   list |-> {<<"[", "]">>},
   tuple |-> {<<"(", ")">>},
   set |-> {<<"s", "e", "t", "(", ")">>},
   frozenset |-> {<<"f", "r", "o", "z", "e", "n", "s", "e", "t", "(", ")">>},
   bytes |-> {<<"b", "'", "'">>},
   bytearray |->
     {<<"b", "y", "t", "e", "a", "r", "r", "a", "y", "(", "b", "'", "'", ")">>}]

DecimalDigits == <<"0", "1", "2", "3", "4", "5", "6", "7", "8", "9">>

\* int(s) of the decimal digits of a number, with or without a sign
RECURSIVE ParseNat(_)
ParseNat(s) ==
  IF s = <<>> THEN 0
  ELSE 10 * ParseNat(SubSeq(s, 1, Len(s) - 1))
         + (CHOOSE d \in 0..9 : DecimalDigits[d + 1] = s[Len(s)])

ParseInt(s) == IF Head(s) = "-" THEN 0 - ParseNat(Tail(s)) ELSE ParseNat(s)

\* len(r) = 0 of a range, read from its str(): "range(start, stop)" or
\* "range(start, stop, step)"
RangeIsEmpty(v) ==
  LET parts == Split(SubSeq(v, 7, Len(v) - 1), ",")
      start == ParseInt(Strip(parts[1]))
      stop == ParseInt(Strip(parts[2]))
      step == IF Len(parts) = 3 THEN ParseInt(Strip(parts[3])) ELSE 1
  IN IF step > 0 THEN start >= stop ELSE start <= stop

\* bool(x) of a Python value of a built-in type. A value of any other type
\* is an object whose class defines neither __bool__ nor __len__, which is
\* true; a value whose str() does not tell its length (a memoryview, an
\* instance of a class with a __len__ of its own) is no value of this model
PyTruthy(x) ==
  CASE x.t = "str" -> x.v # <<>>
    [] x.t \in {"none", "absent"} -> FALSE
    [] x.t = "bool" -> x.v = <<"T", "r", "u", "e">>
    [] x.t = "int" -> x.v # <<"0">>
    [] x.t \in DOMAIN FalseForms -> x.v \notin FalseForms[x.t]
    [] x.t = "range" -> ~RangeIsEmpty(x.v)
    [] OTHER -> TRUE

\* dict.get(key) and dict.get(key, default)
MetaGet(meta, key) == IF meta[key] = PyAbsent THEN PyNone ELSE meta[key]

MetaGetOr(meta, key, default) == IF meta[key] = PyAbsent THEN default ELSE meta[key]

S_unknown == <<"u", "n", "k", "n", "o", "w", "n">>

\* x_forwarded_for.split(',')[0].strip(), line 163
FirstEntry_Untrimmed(s) == Split(s, ",")[1]

FirstEntry(s) == Strip(Split(s, ",")[1])

\* _get_client_ip, lines 159-166; of the values here only a str has a
\* split() that takes ','
get_client_ip(request) ==
  LET x_forwarded_for == MetaGet(request.meta, "HTTP_X_FORWARDED_FOR")
  IN IF PyTruthy(x_forwarded_for)
       THEN IF x_forwarded_for.t = "str"
              THEN [raised |-> FALSE, value |-> PyStr(FirstEntry(x_forwarded_for.v))]
              ELSE [raised |-> TRUE, value |-> PyNone]
       ELSE [raised |-> FALSE,
             value |-> MetaGetOr(request.meta, "REMOTE_ADDR", PyStr(S_unknown))]

PyBool(b) ==
  [t |-> "bool", v |-> IF b THEN <<"T", "r", "u", "e">> ELSE <<"F", "a", "l", "s", "e">>]

S_anonymous == <<"a", "n", "o", "n", "y", "m", "o", "u", "s">>

\* one span.set_attribute(key, value) call
SetAttr(key, value) == [key |-> key, value |-> value]

\* _add_http_attributes, lines 119-126, as the calls it makes; the URL, the
\* host and the scheme are strings the framework builds
add_http_attributes(request) ==
  LET ip == get_client_ip(request)
      before == << SetAttr("http.method", request.method),
                   SetAttr("http.url", PyStr(<<"h", "t", "t", "p", ":", "/", "/", "h", "/">>)),
                   SetAttr("http.user_agent",
                           MetaGetOr(request.meta, "HTTP_USER_AGENT", PyStr(<<>>))) >>
      after == << SetAttr("http.host", PyStr(<<"h">>)),
                  SetAttr("http.scheme", PyStr(<<"h", "t", "t", "p">>)) >>
  IN IF ip.raised THEN [raised |-> TRUE, calls |-> before]
     ELSE [raised |-> FALSE,
           calls |-> before \o <<SetAttr("http.client_ip", ip.value)>> \o after]

\* _add_coralogix_attributes, lines 128-134
add_coralogix_attributes(request) ==
  [raised |-> FALSE,
   calls |->
     << SetAttr("cx.application.name",
                PyStr(GetenvS(request.environ, "CORALOGIX_APPLICATION_NAME", S_django_app))),
        SetAttr("cx.subsystem.name",
                PyStr(GetenvS(request.environ, "CORALOGIX_SUBSYSTEM_NAME", S_backend))),
        SetAttr("service.name",
                PyStr(GetenvS(request.environ, "OTEL_SERVICE_NAME", S_django_application))),
        SetAttr("deployment.environment",
                PyStr(GetenvS(request.environ, "OTEL_DEPLOYMENT_ENVIRONMENT",
                              S_development))) >>]

\* the value of django.user, line 147: str(request.user), or "anonymous"
\* for a request without a user
django_user(request) ==
  IF request.hasUser THEN PyStr(request.user.v) ELSE PyStr(S_anonymous)

\* _add_django_attributes, lines 136-148
add_django_attributes(request) ==
  [raised |-> FALSE,
   calls |->
     (IF request.hasResolver
        THEN << SetAttr("django.view_name", request.resolver.view_name),
                SetAttr("django.url_name", request.resolver.url_name),
                SetAttr("django.app_name", request.resolver.app_name) >>
        ELSE <<>>)
     \o << SetAttr("django.user", django_user(request)),
           SetAttr("django.session",
                   PyBool(request.hasSession /\ request.sessionTruthy)) >>]

CallAddHttpAttributes ==
  /\ qres.fn = "none"
  /\ qres' = [fn |-> "_add_http_attributes"] @@ add_http_attributes(qreq)
  /\ UNCHANGED qreq
  /\ AttrFrame

CallAddCoralogixAttributes ==
  /\ qres.fn = "none"
  /\ qres' = [fn |-> "_add_coralogix_attributes"] @@ add_coralogix_attributes(qreq)
  /\ UNCHANGED qreq
  /\ AttrFrame

CallAddDjangoAttributes ==
  /\ qres.fn = "none"
  /\ qres' = [fn |-> "_add_django_attributes"] @@ add_django_attributes(qreq)
  /\ UNCHANGED qreq
  /\ AttrFrame

CallGetClientIp ==
  /\ qres.fn = "none"
  /\ qres' = [fn |-> "_get_client_ip"] @@ get_client_ip(qreq)
  /\ UNCHANGED qreq
  /\ AttrFrame

\* the longest forwarded-for header enumerated character by character
MaxIpLen == 4

IpChars == {"1", "2", ",", " "}

RECURSIVE IpStringsUpTo(_)
IpStringsUpTo(n) ==
  IF n = 0 THEN {<<>>}
  ELSE LET shorter == IpStringsUpTo(n - 1)
       IN shorter \cup {Append(s, c) : s \in {t \in shorter : Len(t) = n - 1},
                                       c \in IpChars}

\* request.user: AnonymousUser, or a signed-in user with id 7 named "bob"
NoUser == [t |-> "none", v |-> S_None, is_authenticated |-> FALSE, id |-> <<>>]

AnonymousUser ==
  [t |-> "AnonymousUser",
   v |-> <<"A", "n", "o", "n", "y", "m", "o", "u", "s", "U", "s", "e", "r">>,
   is_authenticated |-> FALSE, id |-> S_None]

SignedInUser ==
  [t |-> "User", v |-> <<"b", "o", "b">>, is_authenticated |-> TRUE, id |-> <<"7">>]

\* a resolver match with its view_name, url_name and app_name
SomeResolver ==
  [view_name |-> PyStr(<<"h", "o", "m", "e">>),
   url_name |-> PyStr(<<"h", "o", "m", "e">>),
   app_name |-> PyStr(<<>>)]

\* a GET request with nothing in META, no user, no session, no resolver
\* match, and none of the variables the middleware reads set
BareRequest ==
  [meta |-> [HTTP_X_FORWARDED_FOR |-> PyAbsent, REMOTE_ADDR |-> PyAbsent,
             HTTP_USER_AGENT |-> PyAbsent],
   method |-> PyStr(<<"G", "E", "T">>),
   hasUser |-> FALSE,
   user |-> NoUser,
   hasSession |-> FALSE,
   sessionTruthy |-> TRUE,
   hasResolver |-> FALSE,
   resolver |-> SomeResolver,
   environ |-> [CORALOGIX_APPLICATION_NAME |-> NoneS, CORALOGIX_SUBSYSTEM_NAME |-> NoneS,
                OTEL_SERVICE_NAME |-> NoneS, OTEL_DEPLOYMENT_ENVIRONMENT |-> NoneS]]

\* the requests whose client address is read
IpRequests ==
  { [BareRequest EXCEPT !.meta.HTTP_X_FORWARDED_FOR = xff,
                        !.meta.REMOTE_ADDR = ra] :
      xff \in {PyAbsent} \cup {PyStr(x) : x \in IpStringsUpTo(MaxIpLen)},
      ra \in {PyAbsent, PyStr(<<"9">>)} }

\* the requests whose user is read
UserRequests ==
  { [BareRequest EXCEPT !.hasUser = hu, !.user = u, !.hasResolver = hr, !.hasSession = hs] :
      hu \in BOOLEAN, u \in {AnonymousUser, SignedInUser}, hr \in BOOLEAN,
      hs \in BOOLEAN }

\* values a header of META can hold: a string, or a composite value put
\* there by the caller (a dict, a list)
HeaderObjects ==
  { PyStr(<<"c", "u", "r", "l">>),
    [t |-> "dict", v |-> <<"{", "'", "k", "'", ":", " ", "1", "}">>],
    [t |-> "list", v |-> <<"[", "1", ",", " ", "2", "]">>] }

\* values of HTTP_X_FORWARDED_FOR that are no strings: zeros and empty
\* containers, which bool() takes for false, and values it takes for true
ForwardedObjects ==
  { [t |-> "float", v |-> <<"0", ".", "0">>],
    [t |-> "float", v |-> <<"1", ".", "5">>],
    [t |-> "int", v |-> <<"0">>],
    [t |-> "set", v |-> <<"s", "e", "t", "(", ")">>],
    [t |-> "bytes", v |-> <<"b", "'", "'">>],
    [t |-> "range", v |-> <<"r", "a", "n", "g", "e", "(", "2", ",", " ", "2", ")">>],
    [t |-> "range", v |-> <<"r", "a", "n", "g", "e", "(", "0", ",", " ", "2", ")">>],
    [t |-> "list", v |-> <<"[", "1", ",", " ", "2", "]">>] }

\* the requests whose headers are read
HeaderRequests ==
  { [BareRequest EXCEPT !.meta.HTTP_USER_AGENT = ua, !.meta.REMOTE_ADDR = ra] :
      ua \in HeaderObjects, ra \in {PyAbsent} \cup HeaderObjects }
  \cup
  { [BareRequest EXCEPT !.meta.HTTP_X_FORWARDED_FOR = xff, !.meta.REMOTE_ADDR = ra] :
      xff \in ForwardedObjects, ra \in {PyAbsent, PyStr(<<"9">>)} }

Requests == IpRequests \cup UserRequests \cup HeaderRequests

InitAttr ==
  /\ IdleApp
  /\ IdleRace
  /\ IdleFmt
  /\ IdleLog
  /\ IdleBool
  /\ IdleEntry
  /\ IdleRes
  /\ IdleProv
  /\ IdleMw
  /\ qreq \in Requests
  /\ qres = [fn |-> "none"]

NextAttr ==
  \/ CallGetClientIp
  \/ CallAddHttpAttributes
  \/ CallAddCoralogixAttributes
  \/ CallAddDjangoAttributes

(***************************************************************************)
(* The readers of boolean-like environment variables:                      *)
(* is_instrumentation_enabled (utils.py), the skip test of setup_django    *)
(* (entrypoint.py) and the test of configure_opentelemetry (config.py),    *)
(* each applied to a value given as characters.                            *)
(***************************************************************************)

\* an environment in which only the Django toggle may be set
ToggleEnv(v) ==
  [OTEL_PYTHON_DJANGO_INSTRUMENT |-> v, OTEL_PYTHON_REQUESTS_INSTRUMENT |-> NoneS,
   OTEL_PYTHON_PSYCOPG2_INSTRUMENT |-> NoneS, OTEL_PYTHON_LOGGING_INSTRUMENT |-> NoneS,
   OTEL_PYTHON_KAFKA_INSTRUMENT |-> NoneS, OTEL_PYTHON_WSGI_INSTRUMENT |-> NoneS,
   OTEL_PYTHON_ASGI_INSTRUMENT |-> NoneS]

\* entrypoint.py line 95: os.getenv("SKIP_DJANGO_SETUP") == "true"
skip_django_setup(v) == v = S_true

\* config.py line 219: `if not os.getenv("OTEL_PYTHON_INSTRUMENTATION_ENABLED")`
\* takes the manual branch; any non-empty value means auto-instrumentation
instrumentation_enabled(v) == TruthyS(v)

CallIsInstrumentationEnabled ==
  /\ bres.fn = "none"
  /\ bres' = [fn |-> "is_instrumentation_enabled",
              on |-> is_instrumentation_enabled(ToggleEnv(bval), "django")]
  /\ UNCHANGED bval
  /\ BoolFrame

CallSetupDjango ==
  /\ bres.fn = "none"
  /\ bres' = [fn |-> "setup_django", on |-> skip_django_setup(bval)]
  /\ UNCHANGED bval
  /\ BoolFrame

CallConfigureOpentelemetry ==
  /\ bres.fn = "none"
  /\ bres' = [fn |-> "configure_opentelemetry", on |-> instrumentation_enabled(bval)]
  /\ UNCHANGED bval
  /\ BoolFrame

\* the longest value enumerated character by character
MaxBoolLen == 4

BoolChars == {"t", "T", "r", "R", "u", "e", "0"}

RECURSIVE BoolStringsUpTo(_)
BoolStringsUpTo(n) ==
  IF n = 0 THEN {<<>>}
  ELSE LET shorter == BoolStringsUpTo(n - 1)
       IN shorter \cup {Append(s, c) : s \in {t \in shorter : Len(t) = n - 1},
                                       c \in BoolChars}

\* unset, every short text over BoolChars, "false" and "TRUE"
BoolValues ==
  {NoneS, <<"f", "a", "l", "s", "e">>, <<"T", "R", "U", "E">>}
    \cup BoolStringsUpTo(MaxBoolLen)

InitBool ==
  /\ IdleApp
  /\ IdleRace
  /\ IdleFmt
  /\ IdleLog
  /\ IdleEntry
  /\ IdleRes
  /\ IdleProv
  /\ IdleMw
  /\ IdleAttr
  /\ bval \in BoolValues
  /\ bres = [fn |-> "none", on |-> FALSE]

NextBool ==
  \/ CallIsInstrumentationEnabled
  \/ CallSetupDjango
  \/ CallConfigureOpentelemetry

(***************************************************************************)
(* The root logger's handlers: simple_logging.setup_json_logging and       *)
(* otel_config.setup_logging_format.                                       *)
(* A handler is [owner, stream, formatter]: who added it ("app" or         *)
(* "package"), whether it is a logging.StreamHandler, and the class of its *)
(* formatter. The package defines three classes named                      *)
(* JSONFormatterWithTrace, in simple_logging, otel_config and              *)
(* logging_config; isinstance tells them apart.                            *)
(***************************************************************************)

\* the formatter classes: no formatter, logging.Formatter, and the three
\* JSON formatters with trace context
JsonTraceFormatters == {"simple_logging", "otel_config", "logging_config"}

Formatters == {"none", "plain"} \cup JsonTraceFormatters

\* simple_logging.py lines 64-66: the handler setup_json_logging creates
NewJsonHandler ==
  [owner |-> "package", stream |-> TRUE, formatter |-> "simple_logging"]

\* logging.basicConfig of lines 86-88: it adds a stream handler with a plain
\* formatter only when the root logger has no handler
basicConfig(hs) ==
  IF Len(hs) = 0
    THEN <<[owner |-> "package", stream |-> TRUE, formatter |-> "plain"]>>
    ELSE hs

\* lines 72-76: a stream handler whose formatter is an instance of
\* simple_logging.JSONFormatterWithTrace is already there
HasJsonHandler(hs) ==
  \E i \in DOMAIN hs : hs[i].stream /\ hs[i].formatter = "simple_logging"

\* simple_logging.setup_json_logging, lines 60-88. levelOk: LOG_LEVEL names
\* a level; otherwise setLevel of line 79 raises after the handler was
\* added, and the except clause calls basicConfig
setup_json_logging(hs, levelOk) ==
  IF HasJsonHandler(hs) THEN hs
  ELSE LET added == Append(hs, NewJsonHandler)
       IN IF levelOk THEN added ELSE basicConfig(added)

\* otel_config.setup_logging_format, lines 324-328, on the root logger:
\* every handler whose formatter is not an instance of
\* otel_config.JSONFormatterWithTrace gets a new one
setup_logging_format(hs) ==
  [i \in DOMAIN hs |->
     IF hs[i].formatter # "otel_config"
       THEN [hs[i] EXCEPT !.formatter = "otel_config"]
       ELSE hs[i]]

\* the most logging set-up calls one behaviour makes
MaxLogCalls == 3

SetupJsonLogging ==
  /\ lcalls < MaxLogCalls
  /\ \E levelOk \in BOOLEAN :
       handlers' = setup_json_logging(handlers, levelOk)
  /\ lcalls' = lcalls + 1
  /\ LogFrame

SetupLoggingFormat ==
  /\ lcalls < MaxLogCalls
  /\ handlers' = setup_logging_format(handlers)
  /\ lcalls' = lcalls + 1
  /\ LogFrame

\* the handlers the application configured before the package runs
AppHandlers ==
  { [owner |-> "app", stream |-> st, formatter |-> f] :
      st \in BOOLEAN, f \in Formatters }

RootHandlers ==
  {<<>>} \cup {<<h>> : h \in AppHandlers}
    \cup {<<h, g>> : h \in AppHandlers,
                     g \in {[owner |-> "app", stream |-> FALSE, formatter |-> "none"]}}

InitLog ==
  /\ IdleApp
  /\ IdleRace
  /\ IdleFmt
  /\ IdleEntry
  /\ IdleRes
  /\ IdleProv
  /\ IdleMw
  /\ IdleAttr
  /\ IdleBool
  /\ handlers \in RootHandlers
  /\ lcalls = 0

NextLog == SetupJsonLogging \/ SetupLoggingFormat

(***************************************************************************)
(* logging_config.JSONFormatterWithTrace.format. The outcome is the set    *)
(* of keys of the JSON object returned and the two ids as characters.      *)
(***************************************************************************)

HexChars ==
  <<"0", "1", "2", "3", "4", "5", "6", "7", "8", "9", "a", "b", "c", "d", "e", "f">>

\* format(n, "x"): the hexadecimal digits of a non-negative integer
RECURSIVE HexDigits(_)
HexDigits(n) ==
  IF n < 16 THEN <<HexChars[n + 1]>>
  ELSE Append(HexDigits(n \div 16), HexChars[(n % 16) + 1])

\* format(n, "0<width>x"), lines 29-30: zero-padded on the left to width
\* characters, longer when n needs more
FormatHex(n, width) ==
  LET digits == HexDigits(n)
  IN [i \in 1..(IF Len(digits) < width THEN width - Len(digits) ELSE 0) |-> "0"]
       \o digits

\* SpanContext.is_valid: neither id is zero
is_valid(span_context) == span_context.trace_id # 0 /\ span_context.span_id # 0

\* the keys of the full entry, lines 33-41
FullKeys == {"timestamp", "level", "logger", "message", "module", "function", "line"}

\* the keys of the fallback entry, lines 61-67
FallbackKeys == {"timestamp", "level", "logger", "message", "otel_error"}

\* the fallback of lines 59-68: record.getMessage() is called again, outside
\* any handler
format_fallback(rec) ==
  IF rec.messageRaises
    THEN [raised |-> TRUE, kind |-> "none", keys |-> {}, trace_id |-> <<>>,
          span_id |-> <<>>]
    ELSE [raised |-> FALSE, kind |-> "fallback", keys |-> FallbackKeys,
          trace_id |-> <<>>, span_id |-> <<>>]

\* format, lines 19-68. The steps that can raise, in order: reading the
\* span context (22-30), record.getMessage() (37), formatException (50),
\* json.dumps of an entry with a value it cannot encode (58)
format(rec) ==
  LET valid == is_valid(rec.span_context)
      trace_id == IF valid THEN FormatHex(rec.span_context.trace_id, 32) ELSE <<>>
      span_id == IF valid THEN FormatHex(rec.span_context.span_id, 16) ELSE <<>>
      keys == FullKeys
                \cup (IF trace_id # <<>> THEN {"trace_id", "span_id"} ELSE {})
                \cup (IF rec.exc_info # "none" THEN {"exception"} ELSE {})
                \cup (IF rec.user_id # "absent" THEN {"user_id"} ELSE {})
                \cup (IF rec.request_id # "absent" THEN {"request_id"} ELSE {})
  IN IF \/ rec.spanRaises
        \/ rec.messageRaises
        \/ rec.exc_info = "raises"
        \/ rec.user_id = "object"
        \/ rec.request_id = "object"
       THEN format_fallback(rec)
       ELSE [raised |-> FALSE, kind |-> "full", keys |-> keys,
             trace_id |-> trace_id, span_id |-> span_id]

CallFormat ==
  /\ fout.fn = "none"
  /\ fout' = [fn |-> "format"] @@ format(frec)
  /\ UNCHANGED frec
  /\ FmtFrame

\* the span contexts: the invalid one, half-set ones, and valid ones
SpanContexts ==
  { [trace_id |-> t, span_id |-> s] : t \in {0, 1, 255, 4096}, s \in {0, 10, 65535} }

\* a record and its surroundings: whether trace.get_current_span or the
\* span's get_span_context raises, whether the message's arguments do not
\* fit its format string, exc_info (none, one that formats, one whose
\* formatting raises), and the extra fields user_id and request_id
\* (absent, a string, an object json cannot encode)
Records ==
  { [span_context |-> c, spanRaises |-> sr, messageRaises |-> mr, exc_info |-> ei,
     user_id |-> u, request_id |-> "absent"] :
      c \in SpanContexts, sr \in BOOLEAN, mr \in BOOLEAN,
      ei \in {"none", "present", "raises"}, u \in {"absent", "str", "object"} }

InitFmt ==
  /\ IdleApp
  /\ IdleRace
  /\ IdleEntry
  /\ IdleRes
  /\ IdleProv
  /\ IdleMw
  /\ IdleAttr
  /\ IdleBool
  /\ IdleLog
  /\ frec \in Records
  /\ fout = [fn |-> "none"]

NextFmt == CallFormat

(***************************************************************************)
(* setup_tracing called by several threads of one process (config.py       *)
(* 65-106, otel_config.py 124-170). The function takes no lock, so it is   *)
(* split at its reads and writes of the process-wide provider: the probe   *)
(* (lines 72-75), TracerProvider(...) and set_tracer_provider (78-79), and *)
(* the registration of the exporter (82-106).                              *)
(***************************************************************************)

\* the threads configuring at the same time
MaxThreads == 2

Threads == 1..MaxThreads

\* lines 73-79: a thread whose probe read "not configured" goes on to
\* construct a provider; it holds no lock and does not look again
ProceedsToConstruct_Rechecks(seen, cur) ==
  seen = "unconfigured" /\ ~AlreadyConfigured("trace", cur)

ProceedsToConstruct(seen, cur) == seen = "unconfigured"

\* lines 72-75: the probe
ThreadProbe(t) ==
  /\ tpc[t] = "start"
  /\ LET configured == AlreadyConfigured("trace", current["trace"])
     IN /\ tseen' = [tseen EXCEPT ![t] = IF configured THEN "configured"
                                                       ELSE "unconfigured"]
        /\ tpc' = [tpc EXCEPT ![t] = IF configured THEN "done" ELSE "checked"]
  /\ UNCHANGED <<tprov, provVars>>
  /\ RaceFrame

\* lines 78-79: TracerProvider(resource=resource) and
\* trace.set_tracer_provider, which keeps the first provider set
ThreadSetProvider(t) ==
  /\ tpc[t] = "checked"
  /\ IF ProceedsToConstruct(tseen[t], current["trace"])
       THEN /\ providers' = Append(providers, [signal |-> "trace", exporters |-> <<>>])
            /\ current' = SetGlobal(current, "trace", Len(providers) + 1)
            /\ tprov' = [tprov EXCEPT ![t] = Len(providers) + 1]
            /\ tpc' = [tpc EXCEPT ![t] = "set"]
       ELSE /\ tpc' = [tpc EXCEPT ![t] = "done"]
            /\ UNCHANGED <<providers, current, tprov>>
  /\ UNCHANGED <<tseen, penv, rootMarked, instrumented, pcalls, plast>>
  /\ RaceFrame

\* lines 82-106: the exporter is registered on the thread's own provider
ThreadAddExporter(t) ==
  /\ tpc[t] = "set"
  /\ \E netFails \in BOOLEAN :
       providers' = [providers EXCEPT ![tprov[t]].exporters =
                       Append(@, ChosenExporter(penv, netFails))]
  /\ tpc' = [tpc EXCEPT ![t] = "done"]
  /\ UNCHANGED <<tseen, tprov, penv, current, rootMarked, instrumented, pcalls, plast>>
  /\ RaceFrame

InitRace ==
  /\ IdleApp
  /\ IdleEntry
  /\ IdleRes
  /\ IdleMw
  /\ IdleAttr
  /\ IdleBool
  /\ IdleLog
  /\ IdleFmt
  /\ penv \in ProvEnvs
  /\ providers = <<>>
  /\ current \in {[sig \in Signals |-> 0], [sig \in Signals |-> -1]}
  /\ rootMarked = FALSE
  /\ instrumented = {}
  /\ pcalls = 0
  /\ plast = [fn |-> "none"]
  /\ tpc = [t \in Threads |-> "start"]
  /\ tseen = [t \in Threads |-> "unread"]
  /\ tprov = [t \in Threads |-> 0]

NextRace ==
  \E t \in Threads :
     \/ ThreadProbe(t)
     \/ ThreadSetProvider(t)
     \/ ThreadAddExporter(t)

(***************************************************************************)
(* The Django process: DjangoCoralogixOtelConfig.ready() (apps.py 12-58)   *)
(* and direct calls of configure_opentelemetry, in a process started       *)
(* through the entrypoint or by hand.                                      *)
(***************************************************************************)

K_FLAG == "OTEL_PYTHON_INSTRUMENTATION_ENABLED"

\* apps.py 21-30: the management commands that get logging only
RestrictedCommands ==
  {"showmigrations", "migrate", "sqlmigrate", "sqlflush", "dbshell", "inspectdb",
   "loaddata", "dumpdata"}

\* apps.py 19-31: "manage.py" in sys.argv and any(cmd in sys.argv ...)
is_restricted(args) ==
  /\ \E i \in DOMAIN args : args[i] = "manage.py"
  /\ \E i \in DOMAIN args : args[i] \in RestrictedCommands

\* apps.py 49, otel_config.py 347: if not os.getenv(...)
manual_configuration_wanted(e) == ~Truthy(e[K_FLAG])

\* otel_config.configure_opentelemetry, lines 345-357: the manual branch,
\* which an exception of get_resource leaves at its first line, or the
\* formatter only. formatFails: the closing setup_logging_format raises in
\* its loop over settings.LOGGING, after the root handlers were treated
otel_config_configure_opentelemetry(st, hs, e, traceFails, metricFails, failing, netFails, formatFails) ==
  LET Metrics(t) ==
        IF t.raised THEN t ELSE otel_config_setup_metrics(t, e, metricFails, failing)
      Instrumentation(m) ==
        IF m.raised THEN m ELSE setup_instrumentation(m, e, failing, netFails)
      Outcome(manual, prov) ==
        [prov |-> prov,
         handlers |-> IF prov.raised THEN hs ELSE setup_logging_format(hs),
         manual |-> manual,
         raised |-> prov.raised \/ formatFails]
  IN IF manual_configuration_wanted(e)
       THEN Outcome(TRUE, Instrumentation(Metrics(
                            otel_config_setup_tracing(st, e, traceFails, failing))))
       ELSE Outcome(FALSE, st)

\* apps.py 37 and 53: both paths of ready() end in except Exception
ready_catches_FullPathOnly(restricted) == ~restricted

ready_catches(restricted) == TRUE

\* what can raise inside ready() apart from the faults of the configurator:
\* nothing, the import of otel_config, the call of setup_logging_format
\* (line 36 or 46), or the setup_logging_format that closes
\* configure_opentelemetry
ReadyRaisers == {"none", "import", "setup_logging_format", "configure_opentelemetry"}

\* DjangoCoralogixOtelConfig.ready, apps.py 12-58. setup_logging_format
\* raises in its loop over settings.LOGGING, after the root handlers were
\* treated
ready(st, hs, e, args, raisesAt, traceFails, metricFails, failing, netFails) ==
  LET restricted == is_restricted(args)
      reaches == /\ ~restricted
                 /\ raisesAt \in {"none", "configure_opentelemetry"}
                 /\ manual_configuration_wanted(e)
      Configured(formatted) ==
        IF reaches
          THEN otel_config_configure_opentelemetry(
                 st, formatted, e, traceFails, metricFails, failing, netFails,
                 raisesAt = "configure_opentelemetry")
          ELSE [prov |-> st, handlers |-> formatted, manual |-> FALSE,
                raised |-> FALSE]
      Outcome(conf, raised) ==
        [prov |-> conf.prov, handlers |-> conf.handlers, manual |-> conf.manual,
         restricted |-> restricted, raised |-> raised,
         propagated |-> raised /\ ~ready_catches(restricted)]
      Caught(conf) ==
        Outcome(conf, raisesAt \in {"import", "setup_logging_format"} \/ conf.raised)
  IN Caught(Configured(IF raisesAt = "import" THEN hs ELSE setup_logging_format(hs)))

\* the toggles both the entrypoint and the configurator read
SharedToggles ==
  {"OTEL_PYTHON_DJANGO_INSTRUMENT", "OTEL_PYTHON_REQUESTS_INSTRUMENT",
   "OTEL_PYTHON_PSYCOPG2_INSTRUMENT"}

\* one value of the environment in its two forms here: as the string the
\* entrypoint compares, and as the characters the toggle readers lower
ToggleTexts ==
  { <<None, NoneS>>, <<"", <<>>>>, <<"true", S_true>>,
    <<"False", <<"F", "a", "l", "s", "e">>>> }

TextOf(chars) == (CHOOSE p \in ToggleTexts : p[2] = chars)[1]

CharsOf(text) == (CHOOSE p \in ToggleTexts : p[1] = text)[2]

\* entrypoint.main: the child inherits os.environ as
\* setup_opentelemetry_env (line 162) and, for the command `server`, line
\* 190 left it
EntrypointEnv_NoSetup(e, command) == e

EntrypointEnv(e, command) ==
  LET shell == [k \in EnvNames |-> IF k \in SharedToggles THEN TextOf(e[k]) ELSE e[k]]
      after == setup_opentelemetry_env(shell)
      left == IF command = "server" THEN ForceSkip(after) ELSE after
  IN [k \in DOMAIN e |->
        IF k \notin EnvNames THEN e[k]
        ELSE IF k \in SharedToggles THEN CharsOf(left[k])
        ELSE left[k]]

\* sys.argv of the processes setup_django starts (entrypoint.py 101-115)
\* and of the server run_gunicorn starts (147)
SetupArgvs ==
  { <<"manage.py", "migrate", "--no-input">>,
    <<"manage.py", "collectstatic", "--no-input">>,
    <<"manage.py", "help", "kafka_setup">>,
    <<"manage.py", "kafka_setup">> }

GunicornArgv == <<"gunicorn", "conf.asgi:application", "-c", "gunicorn.config.py">>

\* sys.argv of the Django processes one run of the entrypoint can start,
\* entrypoint.py 165-208; args is sys.argv[1:] of the entrypoint and e the
\* environment it hands on. Without a verb, with an unknown one, and with
\* manage.py or python and nothing after it (the len(sys.argv) < 3 guards
\* of lines 195 and 201) main returns 1 and starts no process
EntrypointChildren(args, e) ==
  LET setup == IF SetupSkipped(e) THEN {} ELSE SetupArgvs
      branch == MainDispatch(args)
  IN CASE branch = "gunicorn" -> setup \cup {GunicornArgv}
       [] branch = "server" -> setup \cup {GunicornArgv}
       [] branch = "setup" -> setup
       [] branch = "passthru" ->
            IF args[1] = "manage.py" THEN {args} ELSE {Tail(args)}
       [] OTHER -> {}

\* otel_run.Command.handle lines 21-25: os.environ.setdefault writes "true"
\* where the variable is unset and keeps every value that is set, the
\* empty one as well
OtelRunEnv(e) ==
  [k \in DOMAIN e |->
     IF k \in SharedToggles /\ e[k] = NoneS THEN S_true
     ELSE IF k \in {K_FLAG, "OTEL_PYTHON_LOGGING_AUTO_INSTRUMENTATION_ENABLED"}
             /\ e[k] = None THEN "true"
     ELSE e[k]]

\* the most calls of ready() and configure_opentelemetry() in one process
MaxAppCalls == 1

\* the root handlers a process starts with
StartHandlers ==
  {<<>>, <<[owner |-> "app", stream |-> TRUE, formatter |-> "none"]>>}

\* the command lines the entrypoint is started with
EntrypointArgvs ==
  { <<"gunicorn">>, <<"server">>, <<"setup">>, <<"manage.py">>, <<"python">>,
    <<"manage.py", "runserver">>, <<"manage.py", "otel_run", "runserver">>,
    <<"python", "manage.py", "shell">> }

\* the process is started through the entrypoint
EntrypointLaunch ==
  /\ origin = "shell"
  /\ origin' = "entrypoint"
  /\ \E args \in EntrypointArgvs :
       /\ penv' = EntrypointEnv(penv, args[1])
       /\ pargv' \in EntrypointChildren(args, EntrypointEnv(penv, args[1]))
  /\ UNCHANGED <<providers, current, rootMarked, instrumented, pcalls, plast>>
  /\ UNCHANGED <<rcalls, rlast, logVars>>
  /\ AppFrame

\* the command lines of a process started by hand
AppArgvs ==
  { <<"manage.py", "migrate", "--no-input">>, <<"manage.py", "runserver">>,
    <<"manage.py", "otel_run">>, <<"manage.py", "otel_run", "runserver">>,
    GunicornArgv }

\* the process is started by hand, with the environment as it is
DirectLaunch ==
  /\ origin = "shell"
  /\ origin' = "direct"
  /\ pargv' \in AppArgvs
  /\ UNCHANGED <<rcalls, rlast, logVars, provVars>>
  /\ AppFrame

\* the call ended with the outcome r
AppReturned(fn, r) ==
  /\ rcalls' = rcalls + 1
  /\ providers' = r.prov.providers
  /\ current' = r.prov.current
  /\ rootMarked' = r.prov.rootMarked
  /\ instrumented' = r.prov.instrumented
  /\ handlers' = r.handlers
  /\ rlast' = [fn |-> fn, manual |-> r.manual, restricted |-> r.restricted,
               raised |-> r.raised, propagated |-> r.propagated,
               loaded |-> fn = "ready" \/ (rlast.fn # "none" /\ rlast.loaded)]
  /\ UNCHANGED <<origin, pargv, penv, pcalls, plast, lcalls>>
  /\ AppFrame

\* the faults chosen for a call are drawn where the call reads them: all
\* of them in its manual branch only, none but that of get_resource when
\* get_resource raises, those of the network exporters only with an
\* endpoint, that of the trace exporter only when setup_tracing goes past
\* its probe, that of an integration only while it is not instrumented,
\* that of the log exporter only while the root logger is not marked. Both
\* faults of the settings end a whole call at the same line, so one of them
\* is drawn. A fault nothing reads is drawn as absent
FaultsRead(manual, e, cur, inst, traceFails, metricFails, failing, netFails) ==
  /\ manual \/ (~traceFails /\ ~metricFails /\ ~netFails /\ failing = "none")
  /\ failing \notin inst
  /\ failing # "bad_custom_attributes"
  /\ rootMarked => ~netFails
  /\ get_resource_raises(failing) => (~traceFails /\ ~metricFails /\ ~netFails)
  /\ Truthy(e["OTEL_EXPORTER_OTLP_ENDPOINT"])
       \/ (~traceFails /\ ~metricFails /\ ~netFails)
  /\ AlreadyConfigured("trace", cur["trace"]) => ~traceFails

\* Django calls ready() when the application is loaded
Ready ==
  /\ origin \in {"entrypoint", "direct", "otel_run"}
  /\ rcalls < MaxAppCalls
  /\ \E raisesAt \in ReadyRaisers, traceFails \in BOOLEAN, metricFails \in BOOLEAN,
        failing \in FailingsOf("otel_config"), netFails \in BOOLEAN :
       /\ FaultsRead(~is_restricted(pargv)
                       /\ raisesAt \in {"none", "configure_opentelemetry"}
                       /\ manual_configuration_wanted(penv),
                     penv, current, instrumented, traceFails, metricFails, failing,
                     netFails)
       /\ get_resource_raises(failing) => raisesAt # "configure_opentelemetry"
       /\ AppReturned("ready",
                   ready([ProvState EXCEPT !.module = "otel_config"], handlers, penv,
                         pargv, raisesAt, traceFails, metricFails, failing, netFails))

\* config.setup_instrumentation line 202: LoggingInstrumentor().instrument(
\* set_logging_format=True) calls logging.basicConfig when it instruments
config_logging_handlers(hs, before, after) ==
  IF "logging" \in after.instrumented \ before.instrumented
    THEN basicConfig(hs)
    ELSE hs

\* the application calls configure_opentelemetry() of either module itself,
\* with no handler around the call; formatFails: the closing
\* setup_logging_format of otel_config's raises
ConfigureDirect ==
  /\ origin \in {"entrypoint", "direct", "otel_run"}
  /\ rcalls < MaxAppCalls
  /\ \E module \in Modules, traceFails \in BOOLEAN, metricFails \in BOOLEAN,
        netFails \in BOOLEAN, formatFails \in BOOLEAN :
     \E failing \in FailingsOf(module) :
       LET st == [ProvState EXCEPT !.module = module]
       IN /\ FaultsRead(manual_configuration_wanted(penv), penv, current, instrumented,
                        traceFails, metricFails, failing, netFails)
          /\ IF module = "otel_config"
            THEN LET Done(r) ==
                       /\ formatFails => ~r.prov.raised
                       /\ AppReturned("configure_opentelemetry",
                                      [prov |-> r.prov, handlers |-> r.handlers,
                                       manual |-> r.manual, restricted |-> FALSE,
                                       raised |-> r.raised, propagated |-> r.raised])
                 IN Done(otel_config_configure_opentelemetry(
                           st, handlers, penv, traceFails, metricFails, failing,
                           netFails, formatFails))
            ELSE LET Done(r) ==
                       /\ ~netFails /\ ~formatFails
                       /\ AppReturned("configure_opentelemetry",
                                      [prov |-> r,
                                       handlers |-> config_logging_handlers(handlers, st, r),
                                       manual |-> ~Truthy(penv[K_FLAG]),
                                       restricted |-> FALSE,
                                       raised |-> FALSE, propagated |-> FALSE])
                 IN Done(configure_opentelemetry(st, penv, traceFails, metricFails,
                                                 failing))

\* `manage.py otel_run <command>` (management/commands/otel_run.py 17-43),
\* run in a process whose application is loaded. Without arguments handle
\* returns after writing the environment; with arguments it starts
\* opentelemetry-instrument python manage.py <command> with that
\* environment and exits with its code: the behaviour goes on in the child,
\* which the launcher gives its providers
OtelRun ==
  /\ origin \in {"entrypoint", "direct", "otel_run"}
  /\ rlast.fn # "none"
  /\ rlast.loaded
  /\ Len(pargv) >= 2
  /\ pargv[1] = "manage.py"
  /\ pargv[2] = "otel_run"
  /\ penv' = OtelRunEnv(penv)
  /\ LET command_args == SubSeq(pargv, 3, Len(pargv))
     IN IF command_args = <<>>
          THEN /\ rlast' = [fn |-> "otel_run", manual |-> FALSE, restricted |-> FALSE,
                            raised |-> FALSE, propagated |-> FALSE, loaded |-> TRUE]
               /\ UNCHANGED <<origin, pargv, providers, current, rootMarked,
                              instrumented, handlers, rcalls>>
          ELSE /\ origin' = IF origin = "entrypoint" THEN "entrypoint" ELSE "otel_run"
               /\ pargv' = <<"manage.py">> \o command_args
               /\ providers' = <<>>
               /\ current' = [sig \in Signals |-> -1]
               /\ rootMarked' = FALSE
               /\ instrumented' = {}
               /\ handlers' \in StartHandlers
               /\ rcalls' = 0
               /\ rlast' = [fn |-> "none"]
  /\ UNCHANGED <<pcalls, plast, lcalls>>
  /\ AppFrame

\* the names of the environment of a process
AppEnvNames == EnvNames \cup DOMAIN (CHOOSE p \in ProvEnvs : TRUE)

\* the environments of the shell that starts the process: the flag in its
\* four forms; an endpoint, the address the entrypoint builds one from, or
\* neither; the Django toggle unset, or empty beside a flag that is unset
\* or "true"
AppEnvs ==
  { [k \in AppEnvNames |->
       CASE k = K_FLAG -> c[1]
         [] k = "OTEL_EXPORTER_OTLP_ENDPOINT" -> c[2]
         [] k = "OTEL_IP" -> c[3]
         [] k = "OTEL_PYTHON_DJANGO_INSTRUMENT" -> c[4]
         [] OTHER -> IF k \in EnvNames \ SharedToggles THEN None ELSE NoneS] :
      c \in { c \in {None, "", "true", "false"} \X {None, "http://collector:4317"}
                     \X {None, "10.0.0.5"} \X {NoneS, <<>>} :
               /\ c[2] = None \/ c[3] = None
               /\ c[4] = NoneS \/ c[1] \in {None, "true"} } }

InitApp ==
  /\ IdleEntry
  /\ IdleRes
  /\ IdleMw
  /\ IdleAttr
  /\ IdleBool
  /\ IdleFmt
  /\ IdleRace
  /\ penv \in AppEnvs
  /\ providers = <<>>
  /\ current \in {[sig \in Signals |-> 0], [sig \in Signals |-> -1]}
  /\ rootMarked = FALSE
  /\ instrumented = {}
  /\ pcalls = 0
  /\ plast = [fn |-> "none"]
  /\ handlers \in StartHandlers
  /\ lcalls = 0
  /\ origin = "shell"
  /\ pargv = <<>>
  /\ rcalls = 0
  /\ rlast = [fn |-> "none"]

NextApp == EntrypointLaunch \/ DirectLaunch \/ Ready \/ ConfigureDirect \/ OtelRun

(***************************************************************************)
(* The specifications                                                      *)
(***************************************************************************)

SpecEntry == InitEntry /\ [][NextEntry]_vars

SpecRes == InitRes /\ [][NextRes]_vars

SpecProv == InitProv /\ [][NextProv]_vars

SpecSafe == InitProv /\ [][NextSafe]_vars

SpecMw == InitMw /\ [][NextMw]_vars

SpecHooks == InitHooks /\ [][NextHooks]_vars

SpecAttr == InitAttr /\ [][NextAttr]_vars

SpecApp == InitApp /\ [][NextApp]_vars

SpecRace == InitRace /\ [][NextRace]_vars

SpecFmt == InitFmt /\ [][NextFmt]_vars

SpecLog == InitLog /\ [][NextLog]_vars

SpecBool == InitBool /\ [][NextBool]_vars

(***************************************************************************)
(* Properties of the entrypoint                                            *)
(***************************************************************************)

SetupCmds == {BaseCommands[1], BaseCommands[2], KafkaSetup}

\* the setup steps started so far, in order
SetupStepsRun == SelectSeq(launched, LAMBDA l : l.cmd \in SetupCmds)

IsPrefix(s, t) == Len(s) <= Len(t) /\ \A i \in 1..Len(s) : s[i] = t[i]

ProbeExitedZero ==
  \E i \in 1..Len(launched) : launched[i].cmd = KafkaProbe /\ launched[i].rc = 0

\* a setup step that exited non-zero is the last subprocess started
NothingAfterFailedStep ==
  \A i \in 1..Len(launched) :
     (launched[i].cmd \in SetupCmds /\ launched[i].rc # 0) => i = Len(launched)

FailedSteps ==
  {i \in 1..Len(launched) : launched[i].cmd \in SetupCmds /\ launched[i].rc # 0}

\* C1: under the verb `setup` the steps run in the order migrate,
\* collectstatic, kafka_setup (the last only after the probe exited 0); a step
\* that exits non-zero is the last one run, and setup's result is its code.
C1_SetupAbortsOnFailure ==
  argv = <<"setup">> =>
    /\ IsPrefix([i \in 1..Len(SetupStepsRun) |-> SetupStepsRun[i].cmd],
                Append(BaseCommands, KafkaSetup))
    /\ (Len(SetupStepsRun) = 3 => ProbeExitedZero)
    /\ NothingAfterFailedStep
    /\ (epc = "exited" /\ launcher =>
          \A i \in FailedSteps : exitStatus = SysExit(launched[i].rc))

\* the three exporter selectors lines 62-64 assign
ExporterSelectors ==
  {"OTEL_TRACES_EXPORTER", "OTEL_METRICS_EXPORTER", "OTEL_LOGS_EXPORTER"}

\* the variables setup_opentelemetry_env handles; SKIP_DJANGO_SETUP is
\* written by main's `server` branch (line 190), not by it
SetupEnvNames == EnvNames \ {"SKIP_DJANGO_SETUP"}

\* the local-development case of line 60, seen from before the call: local,
\* no endpoint, and no OTEL_IP to derive one from
LocalWithoutEndpoint(e) ==
  /\ e["APP_ENVIRONMENT"] = "local"
  /\ ~Truthy(e["OTEL_EXPORTER_OTLP_ENDPOINT"])
  /\ ~Truthy(e["OTEL_IP"])

\* C27 as stated: setup_opentelemetry_env only fills in defaults: every
\* variable set to a non-empty value before the call keeps its value.
C27_OnlyFillsDefaults ==
  [][epc = "main" =>
       \A k \in SetupEnvNames : Truthy(env[k]) => env'[k] = env[k]]_vars

\* C27 amended: every variable set to a non-empty value before the call
\* keeps its value, except that in local development without an endpoint
\* the three exporter selectors become "console".
C27_FillsDefaultsOrLocalConsole ==
  [][epc = "main" =>
       \A k \in SetupEnvNames :
          Truthy(env[k]) =>
            IF k \in ExporterSelectors /\ LocalWithoutEndpoint(env)
              THEN env'[k] = "console"
              ELSE env'[k] = env[k]]_vars

\* a selector set before the call is still there after it, next to the
\* defaults the call filled in
C27_Witness ==
  /\ epc # "main"
  /\ env["OTEL_TRACES_EXPORTER"] = "zipkin"
  /\ env["OTEL_METRICS_EXPORTER"] = "otlp"
  /\ env["APP_ENVIRONMENT"] = "local"
  /\ env["OTEL_EXPORTER_OTLP_ENDPOINT"] = "http://10.0.0.5:4317"

\* the command lines main rejects
BadArgv ==
  \/ Len(argv) = 0
  \/ argv[1] \notin {"gunicorn", "server", "setup", "manage.py", "python"}
  \/ (argv[1] \in {"manage.py", "python"} /\ Len(argv) = 1)

\* C5: with a missing or unknown verb, or manage.py/python without further
\* arguments, main starts no subprocess and returns 1.
C5_BadCommandReturnsOne ==
  BadArgv =>
    /\ launched = <<>>
    /\ epc \in {"main", "exited"}
    /\ (epc = "exited" => exitStatus = 1)

C5_Witness ==
  /\ argv = <<"manage.py">>
  /\ epc = "exited"
  /\ exitStatus = 1
  /\ launched = <<>>

\* the subprocess whose exit code is main's result
IsWrapped(c) == c = GunicornCmd \/ (Len(argv) > 1 /\ c = PassthruCmd(argv))

\* the wrapped subprocess of a finished run: the last process started, when
\* it is the server or the command passed through
WrappedEnded ==
  /\ epc = "exited"
  /\ launched # <<>>
  /\ IsWrapped(launched[Len(launched)].cmd)

\* without the launcher nothing is started through it and the process
\* exits with status 1
LauncherMissingExitsOne ==
  ~launcher =>
     /\ \A i \in 1..Len(launched) : launched[i].cmd = KafkaProbe
     /\ (epc = "exited" /\ ~BadArgv /\ ~(argv = <<"setup">> /\ SetupSkipped(env)))
          => exitStatus = 1

\* C6 as stated: for manage.py, python and the server the entrypoint's exit
\* status equals the wrapped subprocess's returncode, whatever it is;
\* without the launcher the process exits with status 1.
C6_ExitCodeUnchanged ==
  /\ WrappedEnded => exitStatus = launched[Len(launched)].rc
  /\ LauncherMissingExitsOne

\* C6: for manage.py, python and the server the entrypoint's exit status is
\* the wrapped subprocess's exit code when the subprocess exited by itself,
\* and 256 - n when signal n killed it (returncode -n handed to sys.exit);
\* without the launcher the process exits with status 1 and the launcher
\* starts nothing.
C6_ExitCodePropagates ==
  /\ WrappedEnded =>
       LET rc == launched[Len(launched)].rc
       IN /\ rc >= 0 => exitStatus = rc
          /\ rc < 0 => exitStatus = 256 + rc
  /\ LauncherMissingExitsOne

C6_Witness ==
  /\ argv = <<"gunicorn">>
  /\ epc = "exited"
  /\ launched # <<>>
  /\ launched[Len(launched)] = [cmd |-> GunicornCmd, rc |-> 3]
  /\ exitStatus = 3

\* C7: under the verb `gunicorn` the server is started only after the setup
\* steps, and never after a setup step exited non-zero: run_gunicorn then
\* returns that step's code.
C7_NoServerAfterFailedSetup ==
  argv = <<"gunicorn">> =>
    /\ \A j \in 1..Len(launched) :
         launched[j].cmd = GunicornCmd =>
           \/ SetupStepsRun = <<>>
           \/ /\ Len(SetupStepsRun) >= 2
              /\ \A i \in 1..Len(launched) : launched[i].cmd \in SetupCmds => i < j
    /\ NothingAfterFailedStep
    /\ (epc = "exited" /\ launcher =>
          \A i \in FailedSteps : exitStatus = SysExit(launched[i].rc))

\* C8: under the verb `server` the skip flag is forced, no setup command and
\* no probe is run, and the only subprocess is the application server.
C8_ServerSkipsSetup ==
  argv = <<"server">> =>
    /\ epc \notin {"probe", "setup"}
    /\ (epc # "main" => env["SKIP_DJANGO_SETUP"] = "true")
    /\ \A i \in 1..Len(launched) : launched[i].cmd = GunicornCmd
    /\ Len(launched) <= 1

C8_Witness ==
  /\ argv = <<"server">>
  /\ epc = "exited"
  /\ launched = <<[cmd |-> GunicornCmd, rc |-> 0]>>
  /\ exitStatus = 0

(***************************************************************************)
(* Properties of the resource builders                                     *)
(***************************************************************************)

\* The mapping the parser is to return for the string s, stated on the
\* positions of s: a segment lies between two neighbouring cuts (a comma,
\* or an end of s); its key and value lie either side of its first '='.
Cuts(s) == {0, Len(s) + 1} \cup {i \in 1..Len(s) : s[i] = ","}

Segments(s) ==
  {pq \in Cuts(s) \X Cuts(s) :
     pq[1] < pq[2] /\ \A c \in Cuts(s) : ~(pq[1] < c /\ c < pq[2])}

SetMin(S) == CHOOSE x \in S : \A y \in S : x <= y

SetMax(S) == CHOOSE x \in S : \A y \in S : y <= x

\* s[a..b] without its leading and trailing whitespace
Trimmed(s, a, b) ==
  LET solid == {i \in a..b : s[i] \notin Whitespace}
  IN IF solid = {} THEN <<>> ELSE SubSeq(s, SetMin(solid), SetMax(solid))

\* the segments that hold an '=', as <<start, key, value>>
Entries(s) ==
  {LET eqs == {i \in (pq[1] + 1)..(pq[2] - 1) : s[i] = "="}
       m == SetMin(eqs)
   IN <<pq[1], Trimmed(s, pq[1] + 1, m - 1), Trimmed(s, m + 1, pq[2] - 1)>> :
     pq \in {x \in Segments(s) : \E i \in (x[1] + 1)..(x[2] - 1) : s[i] = "="}}

ExpectedMap(s) ==
  [k \in {t[2] : t \in Entries(s)} |->
     LET last == CHOOSE t \in Entries(s) :
                   t[2] = k /\ \A u \in Entries(s) : u[2] = k => u[1] <= t[1]
     IN last[3]]

SameMap(f, g) == DOMAIN f = DOMAIN g /\ \A k \in DOMAIN f : f[k] = g[k]

\* the value of OTEL_RESOURCE_ATTRIBUTES, "" when unset
RawAttrs == GetenvS(renv, "OTEL_RESOURCE_ATTRIBUTES", <<>>)

\* C10: the parser never raises and returns the mapping of the segments that
\* hold an '=' (trimmed key before the first '=', trimmed value after it,
\* later duplicates winning); an empty or unset input adds nothing, so
\* get_resource_attributes returns its base attributes unchanged.
C10_ParserMapping ==
  /\ rres.fn = "_parse_k8s_resource_attributes" =>
       ~rres.raised /\ SameMap(rres.value, ExpectedMap(RawAttrs))
  /\ rres.fn = "get_resource" =>
       /\ ~rres.raised
       /\ \A k \in DOMAIN ExpectedMap(RawAttrs) :
            k \in DOMAIN rres.value /\ rres.value[k] = ExpectedMap(RawAttrs)[k]
  /\ (rres.fn = "get_resource_attributes" /\ RawAttrs = <<>>) =>
       ~rres.raised /\ SameMap(rres.value, UtilsBase(renv))

C10_Witness ==
  /\ rres.fn = "_parse_k8s_resource_attributes"
  /\ RawAttrs = <<" ", "a", "=", ",", "b">>
  /\ SameMap(rres.value, (<<"a">> :> <<>>))

\* the keys each builder also takes from an explicit environment variable,
\* with the variable and the fixed default
ExplicitKeys(fn) ==
  IF fn = "get_resource_attributes"
    THEN { <<K_service_name, "OTEL_SERVICE_NAME", S_django_application>>,
           <<K_service_namespace, "OTEL_SERVICE_NAMESPACE", S_default>>,
           <<K_service_version, "OTEL_SERVICE_VERSION", S_1_0_0>>,
           <<K_deployment_environment, "OTEL_DEPLOYMENT_ENVIRONMENT", S_development>>,
           <<K_coralogix_application, "CORALOGIX_APPLICATION_NAME", S_django_app>>,
           <<K_coralogix_subsystem, "CORALOGIX_SUBSYSTEM_NAME", S_backend>> }
  ELSE IF fn = "get_resource"
    THEN { <<K_service_name, "OTEL_SERVICE_NAME", S_django_service>>,
           <<K_service_version, "OTEL_SERVICE_VERSION", S_1_0_0>>,
           <<K_service_namespace, "OTEL_SERVICE_NAMESPACE", S_default>>,
           <<K_deployment_environment, "APP_ENVIRONMENT", S_production>> }
  ELSE {}

\* C9 as stated: default < parsed entry < explicit variable, so that an
\* explicit variable that is set decides the value of its key.
C9_ExplicitOverridesParsed ==
  \A t \in ExplicitKeys(rres.fn) :
     rres.value[t[1]] =
       IF renv[t[2]] # NoneS THEN renv[t[2]]
       ELSE IF t[1] \in DOMAIN ExpectedMap(RawAttrs) THEN ExpectedMap(RawAttrs)[t[1]]
       ELSE t[3]

\* C9 amended: default < explicit variable < parsed entry: a parsed entry
\* for a key decides its value, else the explicit variable when set, else
\* the fixed default.
C9_ParsedOverridesExplicit ==
  \A t \in ExplicitKeys(rres.fn) :
     rres.value[t[1]] =
       IF t[1] \in DOMAIN ExpectedMap(RawAttrs) THEN ExpectedMap(RawAttrs)[t[1]]
       ELSE IF renv[t[2]] # NoneS THEN renv[t[2]]
       ELSE t[3]

C9_Witness ==
  /\ rres.fn = "get_resource_attributes"
  /\ renv["OTEL_SERVICE_NAME"] = <<"s", "v", "c">>
  /\ RawAttrs = K_service_name \o <<"=", "k", "8", "s">>
  /\ rres.value[K_service_name] = <<"k", "8", "s">>

(***************************************************************************)
(* Properties of the provider configurator                                 *)
(***************************************************************************)

ProvidersOf(sig) == {k \in 1..Len(providers) : providers[k].signal = sig}

\* C2: after any number of calls each signal has at most one provider
\* constructed by this code, carrying at most one exporter.
C2_OneProviderPerSignal ==
  \A sig \in {"trace", "metric"} :
     /\ Cardinality(ProvidersOf(sig)) <= 1
     /\ \A k \in ProvidersOf(sig) : Len(providers[k].exporters) <= 1

\* C3: when an endpoint is configured and building the network exporter
\* raises, the call constructs a provider for that signal whose only
\* exporter is the console exporter.
C3_ConsoleFallback ==
  \A sig \in plast.netFailed :
     \E i \in 1..Len(plast.made) :
        /\ providers[plast.made[i]].signal = sig
        /\ providers[plast.made[i]].exporters = <<"console">>

\* C11: every network exporter instantiated with an endpoint configured gets
\* the headers Authorization = "Bearer <CORALOGIX_PRIVATE_KEY>",
\* CX-Application-Name and CX-Subsystem-Name of get_coralogix_headers.
C11_ExporterHasVendorHeaders ==
  \A i \in 1..Len(plast.kwargs) :
     /\ plast.kwargs[i].hasHeaders
     /\ SameMap(plast.kwargs[i].headers, get_coralogix_headers(penv))

\* C18: setup_instrumentation calls instrument() on an integration only when
\* the integration's is_instrumented probe is false: no call invokes
\* instrument() of an integration that is already instrumented.
C18_InstrumentOnlyWhenProbeFalse ==
  \A lib \in IntegrationSet : lib \notin plast.reinvoked

\* C19: when the instrument() call of one integration raises, every other
\* integration of the list is still attempted, and the call does not raise.
C19_OwnFailureBoundary ==
  plast.fn = "setup_instrumentation" =>
    /\ ~plast.raised
    /\ plast.failed # {} => plast.attempted = IntegrationSet

\* C20: an integration that get_enabled_instrumentations does not list,
\* because its toggle OTEL_PYTHON_<LIB>_INSTRUMENT is not "true", is never
\* instrumented by setup_instrumentation.
C20_TogglesHonoured ==
  LET enabled == get_enabled_instrumentations(penv)
  IN \A lib \in IntegrationSet :
        lib \in instrumented => \E i \in DOMAIN enabled : enabled[i] = lib

\* C22: safe_configure_opentelemetry does not raise and returns a boolean,
\* True exactly when configure_opentelemetry ran and completed; when it did
\* not run, no provider was constructed.
C22_SafeConfigureReturnsBoolean ==
  plast.fn = "safe_configure_opentelemetry" =>
    /\ ~plast.raised
    /\ plast.ret \in {"True", "False"}
    /\ (plast.ret = "True") <=> plast.ran
    /\ ~plast.ran => plast.made = <<>>

(***************************************************************************)
(* Properties of the request middleware                                    *)
(***************************************************************************)

\* C4: whatever telemetry call raises in process_request, process_response
\* or process_exception, no exception leaves the middleware and the
\* response returned is the wrapped handler's, with its status code.
C4_TelemetryFailureKeepsResponse ==
  \A r \in Reqs :
     /\ ~propagated[r]
     /\ mpc[r] = "done" => (returned[r] = handlerResp[r] /\ returned[r] # -1)

C4_Witness ==
  \E r \in Reqs :
     /\ mpc[r] = "done"
     /\ telFailed[r]
     /\ reqSpan[r] # 0
     /\ "http.status_code" \notin spans[reqSpan[r]].keys
     /\ handlerResp[r] = 404
     /\ returned[r] = 404

\* C15: without a tracer, or when the span is not recording, the middleware
\* calls set_attribute on no span, calls the wrapped handler exactly once
\* and returns the handler's response.
C15_NoSpanPassesThrough ==
  (~tracer \/ ~recording) =>
    \A r \in Reqs :
       /\ spans[r].keys = {}
       /\ mpc[r] = "done" => (handlerCalls[r] = 1 /\ returned[r] = handlerResp[r])

\* a request answered 404 by its view went through the middleware, which
\* had no tracer, while the spans of the process were recording
C15_Witness ==
  \E r \in Reqs :
     /\ ~tracer
     /\ recording
     /\ mpc[r] = "done"
     /\ handlerCalls[r] = 1
     /\ handlerResp[r] = 404
     /\ returned[r] = 404
     /\ spans[r].keys = {}

\* C16: the middleware never creates a span and never ends one: no span is
\* started by it and none is ended by it.
C16_NeverCreatesOrEndsSpans ==
  \A r \in Reqs : ~spans[r].started /\ spans[r].ended = 0

\* every request has been answered, one of them after its view raised, and
\* the middleware has started and ended no span
C16_Witness ==
  /\ \A r \in Reqs : mpc[r] = "done" /\ ~spans[r].started /\ spans[r].ended = 0
  /\ \E r \in Reqs : returned[r] = 500
  /\ \E r \in Reqs : returned[r] = 200

\* C17: once a request handled while the spans are recording is answered,
\* its span carries http.status_code, equal to the status code of the
\* response returned. spans[r] is the span of request r, with the
\* attributes the middleware has set on it. Stated for behaviours in which
\* no telemetry call raised.
C17_StatusCodeAttribute ==
  (recording /\ \A q \in Reqs : ~telFailed[q]) =>
    \A r \in Reqs : mpc[r] = "done" => spans[r].statusCode = returned[r]

\* the attribute keys process_request reads from request.resolver_match
ResolverKeys == {"django.view_name", "django.url_name", "django.app_name"}
(***************************************************************************)
(* Properties of the request readers                                       *)
(***************************************************************************)

\* the forwarded-for header and the remote address of the request read
Xff == qreq.meta.HTTP_X_FORWARDED_FOR

RemoteAddr == qreq.meta.REMOTE_ADDR

\* the position that ends the first comma-separated entry of s
FirstCut(s) == SetMin({i \in 1..(Len(s) + 1) : i = Len(s) + 1 \/ s[i] = ","})

\* C12: client-IP extraction returns the first comma-separated entry of
\* HTTP_X_FORWARDED_FOR without its surrounding whitespace when the header
\* is present and not empty, whatever REMOTE_ADDR is, and REMOTE_ADDR
\* otherwise. Stated for a header as a server hands it over: a string, or
\* no entry at all.
C12_ClientIp ==
  (qres.fn = "_get_client_ip" /\ Xff.t \in {"str", "absent"}) =>
    /\ ~qres.raised
    /\ (Xff # PyAbsent /\ Xff.v # <<>>) =>
         qres.value = PyStr(Trimmed(Xff.v, 1, FirstCut(Xff.v) - 1))
    /\ (~(Xff # PyAbsent /\ Xff.v # <<>>) /\ RemoteAddr # PyAbsent) =>
         qres.value = RemoteAddr

C12_Witness ==
  /\ qres.fn = "_get_client_ip"
  /\ Xff = PyStr(<<" ", "1", ",", "2">>)
  /\ RemoteAddr = PyStr(<<"9">>)
  /\ qres.value = PyStr(<<"1">>)

\* the value the call made hands to set_attribute for a key
AttrValues(key) ==
  {qres.calls[i].value : i \in {j \in 1..Len(qres.calls) : qres.calls[j].key = key}}

\* C13: the user extraction yields the empty string for a request without
\* a user or with a user that is not authenticated, and a non-empty value,
\* the string form of user.id, only for an authenticated user.
C13_UserExtraction ==
  qres.fn = "_add_django_attributes" =>
    /\ ~qres.raised
    /\ \A u \in AttrValues("django.user") :
         /\ (~qreq.hasUser \/ ~qreq.user.is_authenticated) => u = PyStr(<<>>)
         /\ u # PyStr(<<>>) =>
              (qreq.hasUser /\ qreq.user.is_authenticated /\ u = PyStr(qreq.user.id))

\* the types span.set_attribute takes as they are
Primitive == {"str", "int", "float", "bool", "none"}

\* C14: every value handed to span.set_attribute is a primitive scalar; a
\* composite value read from the request arrives as its string form.
C14_PrimitiveAttributeValues ==
  qres.fn \in {"_add_http_attributes", "_add_coralogix_attributes",
               "_add_django_attributes"} =>
    \A i \in 1..Len(qres.calls) : qres.calls[i].value.t \in Primitive


(***************************************************************************)
(* Properties of the boolean-like variables                                *)
(***************************************************************************)

\* C21: every reader of a boolean-like variable that is set treats it as on
\* exactly when its value equals "true" ignoring letter case.
C21_BooleanParsing ==
  (bres.fn # "none" /\ bval # NoneS) => (bres.on <=> LowerIsTrue(bval))


(***************************************************************************)
(* Properties of the root logger                                           *)
(***************************************************************************)

\* the root handlers this package added
PackageHandlers == {i \in DOMAIN handlers : handlers[i].owner = "package"}

\* C29: after any sequence of calls of setup_json_logging and
\* setup_logging_format the root logger holds at most one handler that the
\* package added.
C29_AtMostOnePackageHandler == Cardinality(PackageHandlers) <= 1


(***************************************************************************)
(* Properties of the log formatter                                         *)
(***************************************************************************)

\* a step of building the full entry fails for this record
StepFails(rec) ==
  \/ rec.spanRaises
  \/ rec.messageRaises
  \/ rec.exc_info = "raises"
  \/ rec.user_id = "object"
  \/ rec.request_id = "object"

IsHex(s) == \A i \in DOMAIN s : \E j \in DOMAIN HexChars : HexChars[j] = s[i]

\* C30: format never raises; when a step of building the full entry fails it
\* returns the fallback object, and a full entry has trace_id and span_id
\* both (32 and 16 hexadecimal characters, span context valid) or neither.
C30_FormatNeverRaises ==
  fout.fn = "format" =>
    /\ ~fout.raised
    /\ StepFails(frec) => (fout.kind = "fallback" /\ fout.keys = FallbackKeys)
    /\ fout.kind = "full" =>
         /\ ("trace_id" \in fout.keys) <=> ("span_id" \in fout.keys)
         /\ "trace_id" \in fout.keys =>
              /\ is_valid(frec.span_context)
              /\ Len(fout.trace_id) = 32 /\ IsHex(fout.trace_id)
              /\ Len(fout.span_id) = 16 /\ IsHex(fout.span_id)


(***************************************************************************)
(* Properties of concurrent configuration                                  *)
(***************************************************************************)

\* the threads whose probe read "not configured"
Racers == {t \in DOMAIN tpc : tseen[t] = "unconfigured"}

\* C24: provider registration is a check-then-set without a lock: every
\* thread whose probe read "not configured" constructs a TracerProvider of
\* its own and registers an exporter on it, whatever the other threads did
\* in between; two threads that both read "not configured" construct two
\* providers.
C24_CheckThenSetRace ==
  /\ \A t \in Racers :
        tpc[t] = "done" =>
          /\ tprov[t] # 0
          /\ providers[tprov[t]].signal = "trace"
          /\ Len(providers[tprov[t]].exporters) = 1
  /\ \A t \in Racers : \A u \in Racers :
        (t # u /\ tprov[t] # 0 /\ tprov[u] # 0) => tprov[t] # tprov[u]

\* both threads read the probe as false before either set the provider,
\* and both constructed a provider and registered an exporter
C24_Witness ==
  /\ Cardinality(Racers) >= 2
  /\ \A t \in Racers : tpc[t] = "done"
  /\ Len(providers) >= 2
  /\ \A k \in 1..Len(providers) : Len(providers[k].exporters) = 1
  /\ current["trace"] \in 1..Len(providers)


(***************************************************************************)
(* Properties of the Django process                                        *)
(***************************************************************************)

\* C23: ready() never propagates an exception: whatever the import,
\* setup_logging_format or configure_opentelemetry raise, on the restricted
\* path and on the full path, ready() returns normally.
C23_ReadyNeverPropagates ==
  rlast.fn = "ready" => ~rlast.propagated

\* ready() met an exception on the restricted path and returned
C23_Witness ==
  /\ rlast.fn = "ready"
  /\ rlast.raised
  /\ rlast.restricted
  /\ ~rlast.propagated

\* C28: manual configuration runs only where
\* OTEL_PYTHON_INSTRUMENTATION_ENABLED is unset or empty, and a process
\* started through the entrypoint has it non-empty: neither ready() nor a
\* direct configure_opentelemetry() constructs a provider or instruments a
\* library there.
C28_NoManualSetupUnderEntrypoint ==
  /\ (rlast.fn # "none" /\ rlast.manual) => ~Truthy(penv[K_FLAG])
  /\ origin = "entrypoint" =>
       /\ Truthy(penv[K_FLAG])
       /\ providers = <<>>
       /\ instrumented = {}
       /\ rlast.fn # "none" => ~rlast.manual

\* the shell had the variable unset or empty, the entrypoint started the
\* process, ready() ran its full path, and nothing was configured by hand
C28_Witness ==
  /\ origin = "entrypoint"
  /\ penv[K_FLAG] = "true"
  /\ rcalls = MaxAppCalls
  /\ rlast.fn = "ready"
  /\ ~rlast.restricted
  /\ ~rlast.raised
  /\ providers = <<>>

=============================================================================
